---- MODULE Spec2Model ----
(***************************************************************************)
(* A model of the execution engine of bluish: the workflow -> job -> step  *)
(* dispatcher of src/bluish/nodes (dependency walk, matrix expansion,      *)
(* step loop, host scoping) and the expression engine's secret handling.  *)
(*                                                                         *)
(* Strings whose content matters (matrix axis names and values, log text)  *)
(* are sequences of one-character strings: <<"a", ":", "1">> is "a:1".     *)
(***************************************************************************)
EXTENDS Integers, Sequences, FiniteSets, TLC

(***************************************************************************)
(* Bounds of the model.                                                    *)
(***************************************************************************)
NJobs == 3          \* jobs of a workflow in the dependency family
MaxEdges == 2       \* depends_on entries of a workflow, all jobs together
MaxSteps == 2       \* steps of a job in the step family
MaxCalls == 2       \* top-level calls made on one workflow object
MaxSets == 1        \* set_value calls made on one node tree
MaxAssignments == 2 \* entries of a step's `set`
MaxLines == 2       \* lines of a capture file

(***************************************************************************)
(* Text.                                                                   *)
(***************************************************************************)
\* The code point of a character, as Python's str comparison uses it.
CharCode(c) ==
    CASE c = "-" -> 45
      [] c = "1" -> 49
      [] c = "2" -> 50
      [] c = "3" -> 51
      [] c = ":" -> 58
      [] c = "a" -> 97
      [] c = "b" -> 98
      [] c = "o" -> 111
      [] c = "s" -> 115
      [] c = "v" -> 118
      [] OTHER -> 120

\* Python's a < b on str: lexicographic by code point, a proper prefix first.
RECURSIVE StrLess(_, _)
StrLess(a, b) ==
    IF b = <<>> THEN FALSE
    ELSE IF a = <<>> THEN TRUE
    ELSE IF Head(a) = Head(b) THEN StrLess(Tail(a), Tail(b))
    ELSE CharCode(Head(a)) < CharCode(Head(b))

\* One string inserted into a sorted sequence of strings.
RECURSIVE InsertSorted(_, _)
InsertSorted(s, sorted) ==
    IF sorted = <<>> THEN <<s>>
    ELSE IF StrLess(s, Head(sorted)) THEN <<s>> \o sorted
    ELSE <<Head(sorted)>> \o InsertSorted(s, Tail(sorted))

\* sorted(strs)
RECURSIVE Sorted(_)
Sorted(strs) ==
    IF strs = <<>> THEN <<>>
    ELSE InsertSorted(Head(strs), Sorted(Tail(strs)))

\* sep.join(strs)
RECURSIVE Join(_, _)
Join(sep, strs) ==
    IF strs = <<>> THEN <<>>
    ELSE IF Len(strs) = 1 THEN Head(strs)
    ELSE Head(strs) \o sep \o Join(sep, Tail(strs))

(***************************************************************************)
(* Matrices.  A matrix definition is a sequence of axes                    *)
(* [name |-> str, values |-> <<str, ...>>] in declaration order (a dict);  *)
(* a binding is a sequence of <<name, value>> pairs in key order.          *)
(***************************************************************************)
\* itertools.product(*lists): tuples, the last list varying fastest.
RECURSIVE product(_)
product(lists) ==
    IF lists = <<>> THEN << <<>> >>
    ELSE LET rest == product(Tail(lists))
             RECURSIVE Over(_)
             Over(vals) ==
                 IF vals = <<>> THEN <<>>
                 ELSE [i \in 1..Len(rest) |-> <<Head(vals)>> \o rest[i]]
                        \o Over(Tail(vals))
         IN Over(Head(lists))

\* _generate_matrices(ctx): one empty binding when the node has no matrix,
\* else one binding per tuple of the product, keys zipped with the tuple.
_generate_matrices(matrix) ==
    IF matrix = <<>> THEN << <<>> >>
    ELSE LET tuples == product([a \in 1..Len(matrix) |-> matrix[a].values])
         IN [t \in 1..Len(tuples) |->
                [a \in 1..Len(matrix) |-> <<matrix[a].name, tuples[t][a]>>]]

HasKey(binding, k) == \E i \in 1..Len(binding) : binding[i][1] = k

ValueOf(binding, k) ==
    binding[CHOOSE i \in 1..Len(binding) : binding[i][1] = k][2]

\* {**wf_matrix, **job_matrix}: the workflow's keys in order, the job's value
\* where the job has the key too, then the job's other keys.
RECURSIVE KeepNew(_, _)
KeepNew(wf_matrix, job_matrix) ==
    IF job_matrix = <<>> THEN <<>>
    ELSE (IF HasKey(wf_matrix, Head(job_matrix)[1]) THEN <<>>
          ELSE <<Head(job_matrix)>>) \o KeepNew(wf_matrix, Tail(job_matrix))

MergeMatrix(wf_matrix, job_matrix) ==
    [i \in 1..Len(wf_matrix) |->
        IF HasKey(job_matrix, wf_matrix[i][1])
        THEN <<wf_matrix[i][1], ValueOf(job_matrix, wf_matrix[i][1])>>
        ELSE wf_matrix[i]]
    \o KeepNew(wf_matrix, job_matrix)

\* get_matrix_hash: "-".join(sorted(f"{k}:{v}" for k, v in matrix.items()))
get_matrix_hash(matrix) ==
    Join(<<"-">>,
         Sorted([i \in 1..Len(matrix) |-> matrix[i][1] \o <<":">> \o matrix[i][2]]))

(***************************************************************************)
(* The parsed workflow definition and the node tree.                       *)
(*                                                                         *)
(* cfg (the WorkflowDefinition) is fixed by Init:                          *)
(*   cfg.matrix, cfg.runs_on, cfg.jobs[j] = [depends_on, continue_on_error,*)
(*   if, matrix, runs_on, steps], cfg.jobs[j].steps[s] = [if,              *)
(*   continue_on_error, may_raise] (may_raise: the step's action can raise *)
(*   instead of returning a result, as on a command that fails to expand). *)
(*   Job ids are 1..Len(cfg.jobs) in insertion order;                      *)
(*   a depends_on entry beyond that range names no job.  `if` is "absent", *)
(*   "true" or "false" (a literal), or "expr" (a string expression whose   *)
(*   value is decided when it is evaluated).  runs_on is "" (none),        *)
(*   "docker", "docker_named" (a docker:// host whose options give the     *)
(*   container a --name) or "docker_unstartable".                          *)
(*                                                                         *)
(* A ProcessResult is [returncode, stdout]; the stdout of a step's command *)
(* is the tag <<job, step>>.  A host is a container id (0: None).          *)
(***************************************************************************)
VARIABLES
    cfg,            \* the workflow definition
    wf,             \* Workflow node: status, result, failed, matrix, runs_on_host
    jobs,           \* Workflow.jobs: per job id, the Job node's fields
    steps,          \* Job.steps: per job id, the sequence of Step nodes
    stack,          \* the call stack of the dispatcher, innermost frame last
    ret,            \* what the frame that just ended handed to its caller
    visited_jobs,   \* the visited set shared by one dispatch_job call
    live,           \* the containers that are running
    started,        \* how many containers were ever started
    log,            \* history: what the current top-level call dispatched and executed
    call,           \* the current (or last) top-level call
    calls,          \* how many top-level calls were made
    ex,             \* the run of one command: its expansion, its log, its process
    own,            \* per node and root (env, var, secrets), the node's own map
    got,            \* the last get_value or set_value call and how it ended
    sets,           \* how many set_value calls were made
    eval            \* one call of the value and expression functions: its input, its outcome

vars == <<cfg, wf, jobs, steps, stack, ret, visited_jobs, live, started, log, call, calls,
          ex, own, got, sets, eval>>

\* The variables of the value scopes.
svars == <<own, got, sets, eval>>

PENDING == "PENDING"
RUNNING == "RUNNING"
FINISHED == "FINISHED"
SKIPPED == "SKIPPED"

\* ProcessResult(): stdout "", returncode 0.  ProcessResult.EMPTY has the same fields.
ProcessResult == [returncode |-> 0, stdout |-> <<>>]

\* ProcessResult.failed
failed(result) == result.returncode # 0

\* Node.reset: the fields every node starts with.
NodeReset == [status |-> PENDING, result |-> ProcessResult, failed |-> FALSE,
              matrix |-> <<>>, runs_on_host |-> 0, outputs |-> <<>>]

\* Mutation: the new Step children start as steps that already ran.
NewSteps_Stale(j) ==
    [s \in 1..Len(cfg.jobs[j].steps) |-> [NodeReset EXCEPT !.status = FINISHED]]

\* Job.reset: one new Step per step definition.  A Step is a plain Node:
\* constructing it runs Node.reset.
NewSteps(j) == [s \in 1..Len(cfg.jobs[j].steps) |-> NodeReset]

JobIds == 1..Len(cfg.jobs)

NoRet == [kind |-> "none", none |-> FALSE, val |-> ProcessResult, exc |-> ""]
Return(result) == [kind |-> "return", none |-> FALSE, val |-> result, exc |-> ""]
ReturnNone == [kind |-> "return", none |-> TRUE, val |-> ProcessResult, exc |-> ""]
Raise(exc) == [kind |-> "raise", none |-> FALSE, val |-> ProcessResult, exc |-> exc]

NoCtx == [cleanup_host |-> FALSE, existing_host |-> 0]

Frame(fn, j, no_deps) ==
    [fn |-> fn, job |-> j, no_deps |-> no_deps,
     pc |-> IF fn = "dispatch_job" THEN "enter"
            ELSE IF fn = "job" THEN "begin" ELSE "loop",
     i |-> 1, wi |-> 1, ji |-> 1, executed_matrices |-> {},
     wf_ctx |-> NoCtx, job_ctx |-> NoCtx]

Top == stack[Len(stack)]
Pop == SubSeq(stack, 1, Len(stack) - 1)
SetTop(f) == [stack EXCEPT ![Len(stack)] = f]
Running(fn, pc) == stack # <<>> /\ Top.fn = fn /\ Top.pc = pc /\ ret.kind = "none"
Returned(fn, pc) == stack # <<>> /\ Top.fn = fn /\ Top.pc = pc /\ ret.kind = "return"

\* A history record: ev is "dispatch_job" (the loop of Workflow.dispatch called
\* dispatch_job), "job" (Job.dispatch was called) or "exec" (a step's action
\* was executed).
Event(ev, j, s, m) == [ev |-> ev, job |-> j, step |-> s, matrix |-> m]

\* A top-level call and the Job nodes as it found them.
Call(fn, j, no_deps, found) == [fn |-> fn, job |-> j, no_deps |-> no_deps, jobs |-> found]

(***************************************************************************)
(* Hosts.                                                                  *)
(***************************************************************************)
\* bluish.process.prepare_host for a docker:// host whose container is started.
CanStart(runs_on) == runs_on \in {"docker", "docker_named"}

\* The same, called for a node whose container is already up: `docker run`
\* fails on a --name that is in use.
CanStartAgain(runs_on) == runs_on = "docker"

\* bluish.process.cleanup_host: stop and remove the container, None is a no-op.
cleanup_host(containers, host) == IF host = 0 THEN containers ELSE containers \ {host}

\* PrepareHostContext.__enter__: does this node get a host of its own?
PreparesOwnHost(runs_on, runs_on_host) == runs_on # "" /\ runs_on_host = 0

\* PrepareHostContext.__exit__: is the node's host torn down here?
ExitCleans(ctx, runs_on_host) ==
    ~(~ctx.cleanup_host \/ runs_on_host = ctx.existing_host)

(***************************************************************************)
(* Conditions.                                                             *)
(***************************************************************************)
\* can_dispatch: the values the gate can take for a node's `if`.
can_dispatch(if) ==
    CASE if = "absent" -> {TRUE}
      [] if = "true" -> {TRUE}
      [] if = "false" -> {FALSE}
      [] OTHER -> BOOLEAN

(***************************************************************************)
(* Top-level calls: Workflow.dispatch() and Workflow.dispatch_job(job,     *)
(* no_deps), made by the embedding program while nothing is running.       *)
(***************************************************************************)
\* Workflow.dispatch, up to the job loop: reset() builds fresh Job nodes and
\* clears matrix and runs_on_host; then status = RUNNING.
WorkflowDispatch ==
    /\ stack = <<>>
    /\ calls < MaxCalls
    /\ wf' = [wf EXCEPT !.matrix = <<>>, !.runs_on_host = 0, !.status = RUNNING]
    /\ jobs' = [j \in JobIds |-> NodeReset]
    /\ steps' = [j \in JobIds |-> NewSteps(j)]
    /\ stack' = <<Frame("dispatch", 0, FALSE)>>
    /\ ret' = NoRet
    /\ call' = Call("dispatch", 0, FALSE, jobs')
    /\ calls' = calls + 1
    /\ log' = <<>>
    /\ UNCHANGED <<cfg, visited_jobs, live, started, ex, svars>>

\* Workflow.dispatch_job(job, no_deps): __dispatch_job with a fresh visited set.
DispatchJob(j, no_deps) ==
    /\ stack = <<>>
    /\ calls < MaxCalls
    /\ stack' = <<Frame("dispatch_job", j, no_deps)>>
    /\ visited_jobs' = {}
    /\ ret' = NoRet
    /\ call' = Call("dispatch_job", j, no_deps, jobs)
    /\ calls' = calls + 1
    /\ log' = <<>>
    /\ UNCHANGED <<cfg, wf, jobs, steps, live, started, ex, svars>>

(***************************************************************************)
(* Workflow.dispatch: the job loop.                                        *)
(***************************************************************************)
\* The `finally` of Workflow.dispatch.
WorkflowFinally(w) == IF w.status = RUNNING THEN [w EXCEPT !.status = FINISHED] ELSE w

\* Mutation: the loop of Workflow.dispatch never breaks.
WorkflowBreaks_Never(result, j) == FALSE

\* Does Workflow.dispatch leave its loop after this job's result?
WorkflowBreaks(result, j) == failed(result) /\ ~cfg.jobs[j].continue_on_error

\* `for job in self.jobs.values()`: the next job is dispatched with no_deps=False;
\* after the last one the workflow's result is returned.
WorkflowLoop ==
    /\ Running("dispatch", "loop")
    /\ IF Top.i <= Len(cfg.jobs)
       THEN /\ stack' = Append(SetTop([Top EXCEPT !.pc = "job_ret"]),
                               Frame("dispatch_job", Top.i, FALSE))
            /\ visited_jobs' = {}
            /\ log' = Append(log, Event("dispatch_job", Top.i, 0, <<>>))
            /\ UNCHANGED <<wf, ret>>
       ELSE /\ stack' = Pop
            /\ ret' = Return(wf.result)
            /\ wf' = WorkflowFinally(wf)
            /\ UNCHANGED <<visited_jobs, log>>
    /\ UNCHANGED <<cfg, jobs, steps, live, started, call, calls, ex, svars>>

\* self.result = result; a failed result of a job without continue_on_error
\* sets self.failed and ends the loop.
WorkflowJobReturned ==
    /\ Returned("dispatch", "job_ret")
    /\ IF WorkflowBreaks(ret.val, Top.i)
       THEN /\ wf' = WorkflowFinally([wf EXCEPT !.result = ret.val, !.failed = TRUE])
            /\ stack' = Pop
            /\ ret' = Return(ret.val)
       ELSE /\ wf' = [wf EXCEPT !.result = ret.val]
            /\ stack' = SetTop([Top EXCEPT !.pc = "loop", !.i = @ + 1])
            /\ ret' = NoRet
    /\ UNCHANGED <<cfg, jobs, steps, visited_jobs, live, started, log, call, calls, ex, svars>>

(***************************************************************************)
(* Workflow.__dispatch_job: entry and the dependency walk.                 *)
(***************************************************************************)
\* Mutation: the visited set is never consulted.
InVisited_Never(j) == FALSE

\* job.attrs.id in visited_jobs
InVisited(j) == j \in visited_jobs

\* Mutation: a FINISHED job is dispatched like any other.
AlreadyFinished_Never(j) == FALSE

\* Mutation: a SKIPPED job is treated as done, like a FINISHED one.
AlreadyFinished_OrSkipped(j) == jobs[j].status \in {FINISHED, SKIPPED}

\* job.status == ExecutionStatus.FINISHED
AlreadyFinished(j) == jobs[j].status = FINISHED

\* The visited check comes first and raises.
DispatchJobCircular ==
    /\ Running("dispatch_job", "enter")
    /\ InVisited(Top.job)
    /\ stack' = Pop
    /\ ret' = Raise("CircularDependencyError")
    /\ UNCHANGED <<cfg, wf, jobs, steps, visited_jobs, live, started, log, call, calls, ex, svars>>

\* A FINISHED job returns its recorded result.
DispatchJobMemoized ==
    /\ Running("dispatch_job", "enter")
    /\ ~InVisited(Top.job)
    /\ AlreadyFinished(Top.job)
    /\ stack' = Pop
    /\ ret' = Return(jobs[Top.job].result)
    /\ UNCHANGED <<cfg, wf, jobs, steps, visited_jobs, live, started, log, call, calls, ex, svars>>

\* Otherwise (PENDING, or SKIPPED: re-run) the job is added to the visited set.
DispatchJobVisit ==
    /\ Running("dispatch_job", "enter")
    /\ ~InVisited(Top.job)
    /\ ~AlreadyFinished(Top.job)
    /\ visited_jobs' = visited_jobs \cup {Top.job}
    /\ stack' = SetTop([Top EXCEPT !.pc = "deps"])
    /\ UNCHANGED <<cfg, wf, jobs, steps, ret, live, started, log, call, calls, ex, svars>>

\* Mutation: no_deps is ignored.
DepsLeft_Always(f) == f.i <= Len(cfg.jobs[f.job].depends_on)

\* The dependencies still to walk: none with no_deps.
DepsLeft(f) == ~f.no_deps /\ f.i <= Len(cfg.jobs[f.job].depends_on)

\* `for dependency_id in job.attrs.depends_on`: an unknown id raises, a known
\* one is dispatched recursively with the same visited set.
DispatchJobDeps ==
    /\ Running("dispatch_job", "deps")
    /\ IF ~DepsLeft(Top)
       THEN /\ stack' = SetTop([Top EXCEPT !.pc = "wf_matrix"])
            /\ UNCHANGED ret
       ELSE LET d == cfg.jobs[Top.job].depends_on[Top.i] IN
            IF d \notin JobIds
            THEN /\ stack' = Pop
                 /\ ret' = Raise("RuntimeError")
            ELSE /\ stack' = Append(SetTop([Top EXCEPT !.pc = "dep_ret"]),
                                    Frame("dispatch_job", d, Top.no_deps))
                 /\ UNCHANGED ret
    /\ UNCHANGED <<cfg, wf, jobs, steps, visited_jobs, live, started, log, call, calls, ex, svars>>

\* Mutation: a dependency's failure is ignored.
DependencyFailed_Never(result) == FALSE

\* if result.failed: return result
DependencyFailed(result) == failed(result)

DispatchJobDepReturned ==
    /\ Returned("dispatch_job", "dep_ret")
    /\ IF DependencyFailed(ret.val)
       THEN /\ stack' = Pop
            /\ ret' = Return(ret.val)
       ELSE /\ stack' = SetTop([Top EXCEPT !.pc = "deps", !.i = @ + 1])
            /\ ret' = NoRet
    /\ UNCHANGED <<cfg, wf, jobs, steps, visited_jobs, live, started, log, call, calls, ex, svars>>

(***************************************************************************)
(* PrepareHostContext: `with prepare_host(node, existing_host)`.           *)
(***************************************************************************)
\* __enter__: a node with runs_on and no host yet gets a freshly prepared host
\* (ok is FALSE when bluish.process.prepare_host raises); any other node is
\* given the existing host.
Enter(runs_on, node_host, existing, containers, n) ==
    IF PreparesOwnHost(runs_on, node_host)
    THEN IF CanStart(runs_on)
         THEN [ok |-> TRUE, host |-> n + 1, live |-> containers \cup {n + 1},
               started |-> n + 1,
               ctx |-> [cleanup_host |-> TRUE, existing_host |-> existing]]
         ELSE [ok |-> FALSE, host |-> node_host, live |-> containers,
               started |-> n, ctx |-> NoCtx]
    ELSE [ok |-> TRUE, host |-> existing, live |-> containers, started |-> n,
          ctx |-> [cleanup_host |-> FALSE, existing_host |-> existing]]

\* __exit__: cleanup_host(node.runs_on_host) and runs_on_host = None, unless
\* nothing was prepared here or the node's host is the existing one.
Exit(ctx, node_host, containers) ==
    IF ExitCleans(ctx, node_host)
    THEN [host |-> 0, live |-> cleanup_host(containers, node_host)]
    ELSE [host |-> node_host, live |-> containers]

(***************************************************************************)
(* Workflow.__dispatch_job: the matrix loops.                              *)
(***************************************************************************)
\* Is this merged binding skipped as already executed?
AlreadyExecuted(matrix, executed_matrices) ==
    matrix # <<>> /\ get_matrix_hash(matrix) \in executed_matrices

\* Mutation: a failed result of job.dispatch() does not end the loops.
JobFailed_Never(result) == FALSE

\* if result.failed: return result  (after job.dispatch())
JobFailed(result) == failed(result)

\* `for wf_matrix in _generate_matrices(self)`: self.matrix = wf_matrix and the
\* workflow's host context is entered; after the last binding,
\* ProcessResult() is returned.
DispatchJobWfMatrix ==
    /\ Running("dispatch_job", "wf_matrix")
    /\ LET wms == _generate_matrices(cfg.matrix)
           e == Enter(cfg.runs_on, wf.runs_on_host, wf.runs_on_host, live, started)
       IN IF Top.wi > Len(wms)
          THEN /\ stack' = Pop
               /\ ret' = Return(ProcessResult)
               /\ UNCHANGED <<wf, live, started>>
          ELSE IF e.ok
          THEN /\ wf' = [wf EXCEPT !.matrix = wms[Top.wi], !.runs_on_host = e.host]
               /\ live' = e.live
               /\ started' = e.started
               /\ stack' = SetTop([Top EXCEPT !.pc = "job_matrix", !.ji = 1,
                                              !.wf_ctx = e.ctx])
               /\ UNCHANGED ret
          ELSE /\ wf' = [wf EXCEPT !.matrix = wms[Top.wi]]
               /\ stack' = Pop
               /\ ret' = Raise("ValueError")
               /\ UNCHANGED <<live, started>>
    /\ UNCHANGED <<cfg, jobs, steps, visited_jobs, log, call, calls, ex, svars>>

\* `for job_matrix in _generate_matrices(job)`: a binding already executed is
\* skipped; otherwise job.reset(), job.matrix = matrix, the job's host context
\* is entered and job.dispatch() is called.  After the last binding the
\* workflow's host context is left.
DispatchJobJobMatrix ==
    /\ Running("dispatch_job", "job_matrix")
    /\ LET j == Top.job
           jms == _generate_matrices(cfg.jobs[j].matrix)
       IN IF Top.ji > Len(jms)
          THEN LET x == Exit(Top.wf_ctx, wf.runs_on_host, live) IN
               /\ wf' = [wf EXCEPT !.runs_on_host = x.host]
               /\ live' = x.live
               /\ stack' = SetTop([Top EXCEPT !.pc = "wf_matrix", !.wi = @ + 1,
                                              !.wf_ctx = NoCtx])
               /\ UNCHANGED <<jobs, steps, ret, started, log>>
          ELSE LET matrix == MergeMatrix(wf.matrix, jms[Top.ji])
                   e == Enter(cfg.jobs[j].runs_on, 0, wf.runs_on_host, live, started)
                   x == Exit(Top.wf_ctx, wf.runs_on_host, live)
                   seen == IF matrix # <<>>
                           THEN Top.executed_matrices \cup {get_matrix_hash(matrix)}
                           ELSE Top.executed_matrices
               IN IF AlreadyExecuted(matrix, Top.executed_matrices)
                  THEN /\ stack' = SetTop([Top EXCEPT !.ji = @ + 1])
                       /\ UNCHANGED <<wf, jobs, steps, ret, live, started, log>>
                  ELSE IF e.ok
                  THEN /\ jobs' = [jobs EXCEPT ![j].matrix = matrix,
                                               ![j].runs_on_host = e.host]
                       /\ steps' = [steps EXCEPT ![j] = NewSteps(j)]
                       /\ live' = e.live
                       /\ started' = e.started
                       /\ stack' = Append(SetTop([Top EXCEPT !.pc = "job_ret",
                                                   !.executed_matrices = seen,
                                                   !.job_ctx = e.ctx]),
                                          Frame("job", j, FALSE))
                       /\ log' = Append(log, Event("job", j, 0, matrix))
                       /\ UNCHANGED <<wf, ret>>
                  ELSE /\ jobs' = [jobs EXCEPT ![j].matrix = matrix,
                                               ![j].runs_on_host = 0]
                       /\ steps' = [steps EXCEPT ![j] = NewSteps(j)]
                       /\ wf' = [wf EXCEPT !.runs_on_host = x.host]
                       /\ live' = x.live
                       /\ stack' = Pop
                       /\ ret' = Raise("ValueError")
                       /\ UNCHANGED <<started, log>>
    /\ UNCHANGED <<cfg, visited_jobs, call, calls, ex, svars>>

\* result = job.dispatch(): None has no .failed (AttributeError); a failed
\* result is returned; both leave the two host contexts.  Otherwise the job's
\* host context is left and the loop goes on.
DispatchJobJobReturned ==
    /\ Returned("dispatch_job", "job_ret")
    /\ LET j == Top.job
           xj == Exit(Top.job_ctx, jobs[j].runs_on_host, live)
           xw == Exit(Top.wf_ctx, wf.runs_on_host, xj.live)
       IN /\ jobs' = [jobs EXCEPT ![j].runs_on_host = xj.host]
          /\ IF ret.none \/ JobFailed(ret.val)
             THEN /\ wf' = [wf EXCEPT !.runs_on_host = xw.host]
                  /\ live' = xw.live
                  /\ stack' = Pop
                  /\ ret' = IF ret.none THEN Raise("AttributeError") ELSE Return(ret.val)
             ELSE /\ live' = xj.live
                  /\ stack' = SetTop([Top EXCEPT !.pc = "job_matrix", !.ji = @ + 1,
                                                 !.job_ctx = NoCtx])
                  /\ ret' = NoRet
                  /\ UNCHANGED wf
    /\ UNCHANGED <<cfg, steps, visited_jobs, started, log, call, calls, ex, svars>>

(***************************************************************************)
(* Job.dispatch and Step.dispatch.                                         *)
(***************************************************************************)
\* Mutation: the finally of Job.dispatch leaves the status as it is.
JobFinally_KeepsStatus(job) == [job EXCEPT !.runs_on_host = 0]

\* The `finally` of Job.dispatch: FINISHED if still RUNNING, then
\* cleanup_host(self.runs_on_host) and runs_on_host = None.
JobFinally(job) ==
    [job EXCEPT !.status = IF @ = RUNNING THEN FINISHED ELSE @, !.runs_on_host = 0]

\* status = RUNNING, then the host: prepared anew when the job has runs_on
\* (a failure raises before the try block), else the parent's host.
JobBegin ==
    /\ Running("job", "begin")
    /\ LET j == Top.job IN
       IF cfg.jobs[j].runs_on # ""
       THEN IF CanStartAgain(cfg.jobs[j].runs_on)
            THEN /\ jobs' = [jobs EXCEPT ![j].status = RUNNING,
                                         ![j].runs_on_host = started + 1]
                 /\ live' = live \cup {started + 1}
                 /\ started' = started + 1
                 /\ stack' = SetTop([Top EXCEPT !.pc = "gate"])
                 /\ UNCHANGED ret
            ELSE /\ jobs' = [jobs EXCEPT ![j].status = RUNNING]
                 /\ stack' = Pop
                 /\ ret' = Raise("ValueError")
                 /\ UNCHANGED <<live, started>>
       ELSE /\ jobs' = [jobs EXCEPT ![j].status = RUNNING,
                                    ![j].runs_on_host = wf.runs_on_host]
            /\ stack' = SetTop([Top EXCEPT !.pc = "gate"])
            /\ UNCHANGED <<ret, live, started>>
    /\ UNCHANGED <<cfg, wf, steps, visited_jobs, log, call, calls, ex, svars>>

\* if not can_dispatch(self): status = SKIPPED; return None  (through finally)
JobGate ==
    /\ Running("job", "gate")
    /\ \E c \in can_dispatch(cfg.jobs[Top.job].if) :
         IF c
         THEN /\ stack' = SetTop([Top EXCEPT !.pc = "steps", !.i = 1])
              /\ UNCHANGED <<jobs, ret, live>>
         ELSE /\ jobs' = [jobs EXCEPT ![Top.job] = JobFinally([@ EXCEPT !.status = SKIPPED])]
              /\ live' = cleanup_host(live, jobs[Top.job].runs_on_host)
              /\ stack' = Pop
              /\ ret' = ReturnNone
    /\ UNCHANGED <<cfg, wf, steps, visited_jobs, started, log, call, calls, ex, svars>>

\* `if not result: continue` in the step loop: a ProcessResult defines neither
\* __bool__ nor __len__, so every result, ProcessResult.EMPTY too, is truthy.
Falsy(result) == FALSE

\* Mutation: the step loop never breaks.
JobBreaks_Never(result, j, s) == FALSE

\* Does the step loop end after this step's result?
JobBreaks(result, j, s) == failed(result) /\ ~cfg.jobs[j].steps[s].continue_on_error

\* Mutation: the step loop does not advance.
NextStep_Same(s) == s

\* `for step in self.steps`: the position after step s.
NextStep(s) == s + 1

\* The loop's handling of what step.dispatch() returned.
AfterStep(job, result, j, s) ==
    IF Falsy(result) THEN job
    ELSE [job EXCEPT !.result = result,
                     !.failed = IF JobBreaks(result, j, s) THEN TRUE ELSE @]

\* Step.dispatch, first half: a false condition sets SKIPPED and returns
\* ProcessResult.EMPTY to the loop; otherwise status = RUNNING.
StepDispatch ==
    /\ Running("job", "steps")
    /\ Top.i <= Len(steps[Top.job])
    /\ LET j == Top.job
           s == Top.i
       IN \E c \in can_dispatch(cfg.jobs[j].steps[s].if) :
            IF c
            THEN /\ steps' = [steps EXCEPT ![j][s].status = RUNNING]
                 /\ stack' = SetTop([Top EXCEPT !.pc = "action"])
                 /\ UNCHANGED jobs
            ELSE /\ steps' = [steps EXCEPT ![j][s].status = SKIPPED]
                 /\ jobs' = [jobs EXCEPT ![j] = AfterStep(@, ProcessResult, j, s)]
                 /\ stack' = SetTop([Top EXCEPT !.i = NextStep(s)])
    /\ UNCHANGED <<cfg, wf, ret, visited_jobs, live, started, log, call, calls, ex, svars>>

\* What the step's action can do: its command exits 0 or non-zero, or (for a
\* step whose action can raise) an exception leaves execute().
ActionOutcomes(step_def) ==
    IF step_def.may_raise THEN {"ok", "failed", "raise"} ELSE {"ok", "failed"}

\* The ProcessResult of step s of job j for an outcome.
ActionResult(j, s, outcome) ==
    [returncode |-> IF outcome = "ok" THEN 0 ELSE 1, stdout |-> <<j, s>>]

\* Job.exec stores the lines the command wrote to $BLUISH_OUTPUT in the
\* outputs of the step: here every command writes one line, naming itself.
Captured(j, s) == <<<<"step", <<j, s>>>>>>

\* Step.dispatch, second half, and the loop's handling of the result:
\* self.result = action.execute(self), self.failed, status = FINISHED in the
\* finally; then the job records the result and breaks on a failure without
\* continue_on_error.  An exception passes the finally of step and of job.
StepExecute ==
    /\ Running("job", "action")
    /\ LET j == Top.job
           s == Top.i
       IN \E outcome \in ActionOutcomes(cfg.jobs[j].steps[s]) :
            LET r == ActionResult(j, s, outcome) IN
            /\ log' = Append(log, Event("exec", j, s, jobs[j].matrix))
            /\ IF outcome = "raise"
               THEN /\ steps' = [steps EXCEPT ![j][s].status = FINISHED]
                    /\ jobs' = [jobs EXCEPT ![j] = JobFinally(@)]
                    /\ live' = cleanup_host(live, jobs[j].runs_on_host)
                    /\ stack' = Pop
                    /\ ret' = Raise("ActionError")
               ELSE /\ steps' = [steps EXCEPT ![j][s] =
                                   [@ EXCEPT !.result = r, !.failed = failed(r),
                                             !.status = FINISHED,
                                             !.outputs = Captured(j, s)]]
                    /\ jobs' = [jobs EXCEPT ![j] = AfterStep(@, r, j, s)]
                    /\ stack' = SetTop([Top EXCEPT
                                          !.pc = IF JobBreaks(r, j, s) THEN "end" ELSE "steps",
                                          !.i = NextStep(s)])
                    /\ UNCHANGED <<ret, live>>
    /\ UNCHANGED <<cfg, wf, visited_jobs, started, call, calls, ex, svars>>

\* The end of Job.dispatch: the finally block, then return self.result.
JobEnd ==
    /\ \/ Running("job", "end")
       \/ Running("job", "steps") /\ Top.i > Len(steps[Top.job])
    /\ jobs' = [jobs EXCEPT ![Top.job] = JobFinally(@)]
    /\ live' = cleanup_host(live, jobs[Top.job].runs_on_host)
    /\ stack' = Pop
    /\ ret' = Return(jobs[Top.job].result)
    /\ UNCHANGED <<cfg, wf, steps, visited_jobs, started, log, call, calls, ex, svars>>

(***************************************************************************)
(* An exception on its way up: each frame runs what it has for it.         *)
(***************************************************************************)
\* __dispatch_job waiting for job.dispatch() leaves both host contexts;
\* waiting for a dependency it has nothing to run; Workflow.dispatch runs its
\* finally.
Unwind ==
    /\ stack # <<>>
    /\ ret.kind = "raise"
    /\ LET f == Top
           xj == Exit(f.job_ctx, jobs[f.job].runs_on_host, live)
           xw == Exit(f.wf_ctx, wf.runs_on_host, xj.live)
       IN IF f.fn = "dispatch_job" /\ f.pc = "job_ret"
          THEN /\ jobs' = [jobs EXCEPT ![f.job].runs_on_host = xj.host]
               /\ wf' = [wf EXCEPT !.runs_on_host = xw.host]
               /\ live' = xw.live
          ELSE IF f.fn = "dispatch"
          THEN /\ wf' = WorkflowFinally(wf)
               /\ UNCHANGED <<jobs, live>>
          ELSE UNCHANGED <<wf, jobs, live>>
    /\ stack' = Pop
    /\ UNCHANGED <<cfg, steps, ret, visited_jobs, started, log, call, calls, ex, svars>>

(***************************************************************************)
(* Expressions, secrets and the log: the run of one `run:` command.       *)
(*                                                                         *)
(* A Python value is [cls, value, redacted_value]: cls is "NoneType",      *)
(* "str", "SafeString" or "RedactedString", value the characters of the    *)
(* str.  A command template is a sequence of chunks, <<"text", chars>>     *)
(* for literal text and <<"expr", e>> for a ${{ e }} placeholder, with e   *)
(* one of <<"str", chars>> (a quoted literal), <<"secret">> (secrets.x),   *)
(* <<"var">> (var.y) and <<"add", e1, e2>>.                                *)
(***************************************************************************)
None == [cls |-> "NoneType", value |-> <<>>, redacted_value |-> <<>>]

\* A plain str.
PyStr(chars) == [cls |-> "str", value |-> chars, redacted_value |-> chars]

\* SafeString(value, redacted_value): redacted_value or value.
SafeString(chars, redacted) ==
    [cls |-> "SafeString", value |-> chars,
     redacted_value |-> IF redacted = <<>> THEN chars ELSE redacted]

\* isinstance(v, SafeString)
IsSafeString(v) == v.cls = "SafeString"

\* isinstance(v, RedactedString): SafeString and RedactedString are two
\* unrelated subclasses of str.
IsRedactedString(v) == v.cls = "RedactedString"

Stars == <<"*", "*", "*", "*", "*", "*", "*", "*">>

\* _try_get_value for secrets.x: SafeString(ctx.secrets[x], "********").
SecretValue(chars) == SafeString(chars, Stars)

\* expressions.concat
concat(a, b) ==
    IF a = None THEN b
    ELSE IF b = None THEN a
    ELSE [cls |-> "SafeString", value |-> a.value \o b.value,
          redacted_value |->
              (IF IsSafeString(a) THEN a.redacted_value ELSE a.value)
              \o (IF IsSafeString(b) THEN b.redacted_value ELSE b.value)]

\* ExprTransformer on an expression whose operands are strings: str, var
\* (a secret or a variable of the node) and add.
RECURSIVE Transform(_, _, _)
Transform(e, secret, var) ==
    CASE e[1] = "str" -> PyStr(e[2])
      [] e[1] = "secret" -> SecretValue(secret)
      [] e[1] = "var" -> PyStr(var)
      [] OTHER -> concat(Transform(e[2], secret, var), Transform(e[3], secret, var))

\* create_parser(ctx).parse: the text before each placeholder and the
\* placeholder's value are concatenated onto the result, then the last chunk.
RECURSIVE parse(_, _, _, _)
parse(template, secret, var, result) ==
    IF template = <<>> THEN result
    ELSE LET chunk == Head(template)
             piece == IF chunk[1] = "text" THEN PyStr(chunk[2])
                      ELSE Transform(chunk[2], secret, var)
         IN parse(Tail(template), secret, var, concat(result, piece))

\* Node.expand_expr on a str: returned as it is when it has no placeholder.
expand_expr(template, secret, var) ==
    IF \A c \in 1..Len(template) : template[c][1] = "text"
    THEN PyStr(Join(<<>>, [c \in 1..Len(template) |-> template[c][2]]))
    ELSE parse(template, secret, var, None)

\* bluish.logging.info and its siblings: the text handed to the logging module.
info(message) ==
    IF IsRedactedString(message) THEN message.redacted_value ELSE message.value

\* utils.decorate_for_log of a one-line value.
decorate_for_log(v, decoration) ==
    IF IsRedactedString(v)
    THEN [cls |-> "RedactedString", value |-> v.value,
          redacted_value |-> IF v.redacted_value = <<>> THEN <<>>
                             ELSE decoration \o v.redacted_value]
    ELSE PyStr(IF v.value = <<>> THEN <<>> ELSE decoration \o v.value)

\* str.strip(), str.rstrip() and the lines read from a process are plain str.
Plain(v) == PyStr(v.value)

NoCommand ==
    [pc |-> "idle", template |-> <<>>, secret |-> <<>>, var |-> <<>>,
     echo_commands |-> FALSE, echo_output |-> FALSE,
     command |-> None, executed |-> <<>>, sink |-> <<>>]

dvars == <<cfg, wf, jobs, steps, stack, ret, visited_jobs, live, started, log, call, calls>>

\* RunCommand.run: command = step.expand_expr(command)
RunExpand ==
    /\ ex.pc = "run"
    /\ ex' = [ex EXCEPT !.command = expand_expr(ex.template, ex.secret, ex.var),
                        !.pc = "echo"]
    /\ UNCHANGED <<dvars, svars>>

\* RunCommand.run: if echo_commands: info(command)
RunEcho ==
    /\ ex.pc = "echo"
    /\ ex' = [ex EXCEPT !.sink = IF ex.echo_commands
                                 THEN Append(@, info(ex.command)) ELSE @,
                        !.pc = "exec"]
    /\ UNCHANGED <<dvars, svars>>

\* Job.exec: command = context.expand_expr(command).strip(), handed to
\* bluish.process.run.
JobExec ==
    /\ ex.pc = "exec"
    /\ ex' = [ex EXCEPT !.executed = Plain(ex.command).value, !.pc = "output"]
    /\ UNCHANGED <<dvars, svars>>

\* What the process prints, a line at a time: nothing, or (an echo) its input.
ProcessOutputs(executed) == {<<>>, executed}

\* Job.exec, stdout_handler: info(decorate_for_log(line.rstrip(), "  > ")), when
\* the output is streamed.
StreamOutput ==
    /\ ex.pc = "output"
    /\ \E line \in ProcessOutputs(ex.executed) :
         ex' = [ex EXCEPT
                  !.sink = IF ex.echo_output /\ line # <<>>
                           THEN Append(@, info(decorate_for_log(PyStr(line), <<" ", " ", ">", " ">>)))
                           ELSE @,
                  !.pc = "done"]
    /\ UNCHANGED <<dvars, svars>>

(***************************************************************************)
(* Value scopes: env, var and secrets of a node.                           *)
(*                                                                         *)
(* The node tree here is a workflow with two jobs, the first with two      *)
(* steps.  own[n][root] is the dict a node's ChainMap starts with (the     *)
(* node's attrs.env, attrs.var or attrs.secrets): per name a value (the    *)
(* characters of a str) or Unset when the dict has no such key.            *)
(***************************************************************************)
ScopeNodes == {"workflow", "job1", "job2", "step1", "step2"}

\* Node.parent; "" is None.
parent(n) ==
    CASE n = "job1" -> "workflow"
      [] n = "job2" -> "workflow"
      [] n = "step1" -> "job1"
      [] n = "step2" -> "job1"
      [] OTHER -> ""

Roots == {"env", "var", "secrets"}

Names == {"X"}

Unset == <<"unset">>

\* `varname in ctx.var` on ChainMap(own map, parent.var): in any map of the chain.
RECURSIVE InChain(_, _, _, _)
InChain(maps, n, root, name) ==
    \/ maps[n][root][name] # Unset
    \/ parent(n) # "" /\ InChain(maps, parent(n), root, name)

\* Mutation: the parent's map is searched before the node's own.
RECURSIVE ChainGet_ParentFirst(_, _, _, _)
ChainGet_ParentFirst(maps, n, root, name) ==
    IF parent(n) # "" /\ InChain(maps, parent(n), root, name)
    THEN ChainGet_ParentFirst(maps, parent(n), root, name)
    ELSE maps[n][root][name]

\* ctx.var[varname] on the ChainMap: the first map of the chain with the key.
RECURSIVE ChainGet(_, _, _, _)
ChainGet(maps, n, root, name) ==
    IF maps[n][root][name] # Unset THEN maps[n][root][name]
    ELSE ChainGet(maps, parent(n), root, name)

\* prepare_value of a str without placeholders: _expand_expr returns it as it is.
prepare_value(value) == value

\* _try_get_value for env.X, var.X and secrets.X (no sys_env attribute is set
\* on the nodes): None when no map of the chain has the name.
_try_get_value(maps, n, root, name) ==
    IF ~InChain(maps, n, root, name) THEN None
    ELSE IF root = "secrets"
    THEN prepare_value(SecretValue(ChainGet(maps, n, root, name)))
    ELSE prepare_value(PyStr(ChainGet(maps, n, root, name)))

\* Node.get_value(name) without a default: ValueError when nothing is found.
get_value(maps, n, root, name) ==
    LET value == _try_get_value(maps, n, root, name)
    IN IF value = None THEN [kind |-> "raise", value |-> None]
       ELSE [kind |-> "return", value |-> value]

\* Mutation: the write goes to the last map of the chain, the workflow's.
TrySet_Root(maps, n, root, name, value) == [maps EXCEPT !["workflow"][root][name] = value]

\* Mutation: the write goes to the nearest map that has the name.
RECURSIVE TrySet_WhereFound(_, _, _, _, _)
TrySet_WhereFound(maps, n, root, name, value) ==
    IF maps[n][root][name] = Unset /\ parent(n) # "" /\ InChain(maps, parent(n), root, name)
    THEN TrySet_WhereFound(maps, parent(n), root, name, value)
    ELSE [maps EXCEPT ![n][root][name] = value]

\* _try_set_value for env.X and var.X: ctx.env[varname] = value writes the
\* first map of the ChainMap, the node's own.
TrySet(maps, n, root, name, value) == [maps EXCEPT ![n][root][name] = value]

\* _try_set_value returns False for any other root and set_value raises.
CanSet(root) == root \in {"env", "var"}

NoOp == [op |-> "none", node |-> "", root |-> "", name |-> "",
         value |-> <<>>, result |-> [kind |-> "none", value |-> None]]

\* No call of the value and expression functions is under way.
NoEval == [pc |-> "idle"]

\* No node defines anything.
NoValues == [n \in ScopeNodes |-> [r \in Roots |-> [x \in Names |-> Unset]]]

\* Node.get_value(f"{root}.{name}") on node n.
GetValue(n, root, name) ==
    /\ got' = [op |-> "get", node |-> n, root |-> root, name |-> name,
               value |-> <<>>, result |-> get_value(own, n, root, name)]
    /\ UNCHANGED <<dvars, ex, own, sets, eval>>

\* Node.set_value(f"{root}.{name}", value) on node n.
SetValue(n, root, name, value) ==
    /\ sets < MaxSets
    /\ sets' = sets + 1
    /\ own' = IF CanSet(root) THEN TrySet(own, n, root, name, value) ELSE own
    /\ got' = [op |-> "set", node |-> n, root |-> root, name |-> name,
               value |-> value,
               result |-> [kind |-> IF CanSet(root) THEN "return" ELSE "raise",
                           value |-> None]]
    /\ UNCHANGED <<dvars, ex, eval>>

(***************************************************************************)
(* Names, values and expressions of a node.                                *)
(*                                                                         *)
(* A context ctx is [maps, res, attrs, node]: the nodes' own maps, their   *)
(* results, their attributes, and the node the call is made on.  A value   *)
(* of a definition's map is Unset (no such key), <<"null">>, <<"int", n>>  *)
(* or <<"str", template>>, a template being the str cut at its ${{ }}      *)
(* placeholders as EXPRESSION_REGEX finds them: <<"text", chars>> and      *)
(* <<"expr", e>> chunks, and <<"bare", e>> for text that is the source of  *)
(* expression e without the ${{ }} around it.  An expression e is <<"number", n>>,              *)
(* <<"str", chars>>, <<"var", name>> or <<"add", e1, e2>>; <<"bool", b>>   *)
(* is a value too.  A name is the  *)
(* text split at its first dot: <<"X">> is X, <<"", "X">> is .X and        *)
(* <<"var", "X">> is var.X.  A call ends in Val(value) or Err(exception).  *)
(***************************************************************************)
Val(value) == [kind |-> "return", value |-> value, exc |-> ""]

Err(exc) == [kind |-> "raise", value |-> None, exc |-> exc]

Digit == <<"0", "1", "2", "3", "4", "5", "6", "7", "8", "9">>

\* str(n) of a small int.
IntText(n) == IF n < 10 THEN <<Digit[n + 1]>> ELSE <<Digit[(n \div 10) + 1], Digit[(n % 10) + 1]>>

\* The int a text of digits stands for.
IntOf(chars) ==
    LET d(c) == CHOOSE k \in 0..9 : Digit[k + 1] = c
    IN IF Len(chars) = 1 THEN d(chars[1]) ELSE 10 * d(chars[1]) + d(chars[2])

\* An int; value is its str().
PyInt(n) == [cls |-> "int", value |-> IntText(n), redacted_value |-> IntText(n)]

\* A bool; value is its str().
PyBool(b) ==
    LET text == IF b THEN <<"T", "r", "u", "e">> ELSE <<"F", "a", "l", "s", "e">>
    IN [cls |-> "bool", value |-> text, redacted_value |-> text]

\* isinstance(v, (int, float)): bool is a subclass of int.
IsNumber(v) == v.cls \in {"int", "bool"}

\* The int of a number: True is 1, False is 0.
NumOf(v) == IF v.cls = "bool" THEN (IF v.value = PyBool(TRUE).value THEN 1 ELSE 0)
            ELSE IntOf(v.value)

\* str.strip() of a text whose only whitespace is the space.
RECURSIVE Strip(_)
Strip(chars) ==
    IF chars = <<>> THEN <<>>
    ELSE IF Head(chars) = " " THEN Strip(Tail(chars))
    ELSE IF chars[Len(chars)] = " " THEN Strip(SubSeq(chars, 1, Len(chars) - 1))
    ELSE chars

\* The recursion the interpreter allows before it raises RecursionError,
\* counted in nested expansions.
RecursionLimit == 8

\* Mutation: a name found both ways is never ambiguous.
Ambiguous_Never(member_result, var_result) == FALSE

\* _try_get_value on a bare name: both the member and the variable exist.
Ambiguous(member_result, var_result) == var_result # None /\ member_result # None

\* ExprTransformer.add on two values.
add(a, b) ==
    IF IsNumber(a) \/ IsNumber(b)
    THEN IF IsNumber(a) /\ IsNumber(b) THEN Val(PyInt(NumOf(a) + NumOf(b)))
         ELSE Err("TypeError")
    ELSE Val(concat(a, b))

\* The source text of an expression.
RECURSIVE SourceOf(_)
SourceOf(e) ==
    CASE e[1] = "number" -> IntText(e[2])
      [] e[1] = "str" -> <<"'">> \o e[2] \o <<"'">>
      [] e[1] = "var" -> Join(<<".">>, [c \in 1..Len(e[2]) |-> <<e[2][c]>>])
      [] OTHER -> SourceOf(e[2]) \o <<"+">> \o SourceOf(e[3])

\* The text of a template without placeholders.
TextOf(template) ==
    Join(<<>>, [c \in 1..Len(template) |->
                  IF template[c][1] = "bare" THEN SourceOf(template[c][2])
                  ELSE template[c][2]])

\* "${{" in value
HasPlaceholder(template) == \E c \in 1..Len(template) : template[c][1] = "expr"

RECURSIVE TryGet(_, _, _)
RECURSIVE NodeGetValue(_, _, _)
RECURSIVE PrepareValue(_, _, _)
RECURSIVE ExpandExpr(_, _, _)
RECURSIVE Parse(_, _, _, _)
RECURSIVE Eval(_, _, _)

\* prepare_value inside _try_get_value: None stays None, a str is expanded in
\* the context of the node that asked, anything else is returned as it is.
PrepareValue(ctx, value, fuel) ==
    CASE value[1] = "null" -> Val(None)
      [] value[1] = "int" -> Val(PyInt(value[2]))
      [] value[1] = "bool" -> Val(PyBool(value[2]))
      [] OTHER -> ExpandExpr(ctx, value[2], fuel)

\* Node.NODE_TYPE
NodeType(n) == IF n = "workflow" THEN "workflow"
               ELSE IF n \in {"job1", "job2"} THEN "job" ELSE "step"

\* _job(ctx): the job of a step, the job itself; "" where the code raises
\* ValueError, on a workflow.
JobOf(n) == IF NodeType(n) = "job" THEN n
            ELSE IF NodeType(n) = "step" THEN parent(n) ELSE ""

\* wf.jobs: the ids of the jobs.
JobsOfWorkflow == {m \in ScopeNodes : NodeType(m) = "job"}

\* The ids of job.steps.
StepsOfJob(job) == {m \in ScopeNodes : NodeType(m) = "step" /\ parent(m) = job}

\* _try_get_value(ctx, name): None when the name resolves to nothing.  A
\* jobs.<id> or steps.<id> name is looked up on that job or step.
TryGet(ctx, name, fuel) ==
    IF Len(name) = 1
    THEN LET member_result == TryGet(ctx, <<"", name[1]>>, fuel)
             var_result == TryGet(ctx, <<"var", name[1]>>, fuel)
         IN IF member_result.kind = "raise" THEN member_result
            ELSE IF var_result.kind = "raise" THEN var_result
            ELSE IF Ambiguous(member_result.value, var_result.value)
            THEN Err("ValueError: Ambiguous value reference")
            ELSE IF var_result.value # None THEN var_result
            ELSE IF member_result.value # None THEN member_result
            ELSE Val(None)
    ELSE CASE name[1] = "" /\ name[2] = "stdout" ->
                Val(PyStr(Strip(ctx.res[ctx.node].stdout)))
           [] name[1] = "" /\ name[2] = "returncode" ->
                Val(PyInt(ctx.res[ctx.node].returncode))
           [] name[1] = "var" /\ name[2] \in DOMAIN ctx.maps[ctx.node]["var"] ->
                IF InChain(ctx.maps, ctx.node, "var", name[2])
                THEN PrepareValue(ctx, ChainGet(ctx.maps, ctx.node, "var", name[2]), fuel)
                ELSE Val(None)
           [] name[1] = "env" /\ name[2] \in DOMAIN ctx.maps[ctx.node]["env"] ->
                IF InChain(ctx.maps, ctx.node, "env", name[2])
                THEN PrepareValue(ctx, ChainGet(ctx.maps, ctx.node, "env", name[2]), fuel)
                ELSE Val(None)
           [] name[1] = "outputs" /\ name[2] \in DOMAIN ctx.maps[ctx.node]["outputs"] ->
                IF ctx.maps[ctx.node]["outputs"][name[2]] # Unset
                THEN PrepareValue(ctx, ctx.maps[ctx.node]["outputs"][name[2]], fuel)
                ELSE Val(None)
           [] name[1] = "workflow" ->
                TryGet([ctx EXCEPT !.node = "workflow"], Tail(name), fuel)
           [] name[1] = "job" ->
                IF JobOf(ctx.node) = "" THEN Err("ValueError: Can't find job")
                ELSE TryGet([ctx EXCEPT !.node = JobOf(ctx.node)], Tail(name), fuel)
           [] name[1] = "step" ->
                IF NodeType(ctx.node) # "step" THEN Err("ValueError: Can't find step")
                ELSE TryGet(ctx, Tail(name), fuel)
           [] name[1] = "jobs" ->
                IF Len(name) < 3 THEN Err("ValueError: not enough values to unpack")
                ELSE IF name[2] \notin JobsOfWorkflow THEN Err("ValueError: Job not found")
                ELSE TryGet([ctx EXCEPT !.node = name[2]], Tail(Tail(name)), fuel)
           [] name[1] = "steps" ->
                IF JobOf(ctx.node) = "" THEN Err("ValueError: Can't find job")
                ELSE IF Len(name) < 3 THEN Err("ValueError: not enough values to unpack")
                ELSE IF name[2] \notin StepsOfJob(JobOf(ctx.node))
                THEN Err("ValueError: Step not found")
                ELSE TryGet([ctx EXCEPT !.node = name[2]], Tail(Tail(name)), fuel)
           [] OTHER -> Val(None)

\* Node.get_value(name) without a default: ValueError when the name
\* resolves to nothing.
NodeGetValue(ctx, name, fuel) ==
    LET value == TryGet(ctx, name, fuel)
    IN IF value.kind = "return" /\ value.value = None
       THEN Err("ValueError: Variable not found")
       ELSE value

\* ExprTransformer: children first, left to right; an exception of a child
\* is the exception of the expression.
Eval(ctx, e, fuel) ==
    CASE e[1] = "number" -> Val(PyInt(e[2]))
      [] e[1] = "str" -> Val(PyStr(e[2]))
      [] e[1] = "var" ->
           IF e[2] = <<"true">> THEN Val(PyBool(TRUE))
           ELSE IF e[2] = <<"false">> THEN Val(PyBool(FALSE))
           ELSE NodeGetValue(ctx, e[2], fuel)
      [] OTHER ->
           LET a == Eval(ctx, e[2], fuel)
               b == Eval(ctx, e[3], fuel)
           IN IF a.kind = "raise" THEN a
              ELSE IF b.kind = "raise" THEN b
              ELSE add(a.value, b.value)

\* create_parser(ctx).parse: every match of EXPRESSION_REGEX is evaluated;
\* the text before it and its value are concatenated onto the result.
Parse(ctx, template, result, fuel) ==
    IF template = <<>> THEN Val(result)
    ELSE LET chunk == Head(template)
             piece == IF chunk[1] = "expr" THEN Eval(ctx, chunk[2], fuel)
                      ELSE Val(PyStr(TextOf(<<chunk>>)))
         IN IF piece.kind = "raise" THEN piece
            ELSE Parse(ctx, Tail(template), concat(result, piece.value), fuel)

\* _expand_expr(ctx, value) on a str: returned as it is without "${{", handed
\* to the parser otherwise.  _depth is neither counted nor tested; what ends
\* an expansion that never ends is the interpreter.
ExpandExpr(ctx, template, fuel) ==
    IF ~HasPlaceholder(template) THEN Val(PyStr(TextOf(template)))
    ELSE IF fuel = 0 THEN Err("RecursionError")
    ELSE Parse(ctx, template, None, fuel - 1)

Str_sh == <<"s", "h">>

\* The properties of STEP_SCHEMA, JOB_SCHEMA and WORKFLOW_SCHEMA that have a
\* default, among shell, working_directory and echo_commands: echo_commands
\* in all three, shell in a step's only, working_directory in none.
SchemaDefaults(node_type) ==
    IF node_type = "step"
    THEN [shell |-> PyStr(Str_sh), echo_commands |-> PyBool(TRUE)]
    ELSE [echo_commands |-> PyBool(TRUE)]

\* Object.validate, called by Definition.__init__ on the dict it keeps:
\* ensure_property writes the default of every property the data lacks.
validate(node_type, data) ==
    LET defaults == SchemaDefaults(node_type)
    IN [k \in DOMAIN data \cup DOMAIN defaults |->
          IF k \in DOMAIN data THEN data[k] ELSE defaults[k]]

\* Definition(**kwargs): the attrs of a node are its validated data.
Definition(node_type, data) == validate(node_type, data)

\* Node.get_inherited_attr(name, default), from node n upwards; a str
\* without placeholders is what expand_expr returns for it.
RECURSIVE get_inherited_attr(_, _, _, _)
get_inherited_attr(ctx, n, name, default) ==
    IF n = "" THEN default
    ELSE IF name \in DOMAIN ctx.attrs[n].mutated THEN ctx.attrs[n].mutated[name]
    ELSE IF name \in DOMAIN ctx.attrs[n].attrs THEN ctx.attrs[n].attrs[name]
    ELSE get_inherited_attr(ctx, parent(n), name, default)

\* Node.expand_expr(value): a str is expanded, any other value returned as it is.
NodeExpandExpr(ctx, value, fuel) == PrepareValue(ctx, value, fuel)

\* A Python value as the value of a map, where set_value has put it.
Stored(v) ==
    CASE v = None -> <<"null">>
      [] v.cls = "int" -> <<"int", IntOf(v.value)>>
      [] v.cls = "bool" -> <<"bool", v = PyBool(TRUE)>>
      [] OTHER -> <<"str", IF v.value = <<>> THEN <<>> ELSE << <<"text", v.value>> >> >>

Refused == [ok |-> FALSE, maps |-> <<>>, exc |-> ""]

\* An exception leaves _try_set_value.
Raised(exc) == [ok |-> FALSE, maps |-> <<>>, exc |-> exc]

\* The value is put into one map of one node.
Written(maps, n, root, name, value) ==
    [ok |-> TRUE, maps |-> TrySet(maps, n, root, name, Stored(value)), exc |-> ""]

\* _try_set_value(ctx, name, value) for a name given as its dot-separated
\* parts: [ok, maps, exc], ok FALSE for a name it refuses (it returns False)
\* and for one it raises exc on.  A leading dot is dropped; env.X, var.X and
\* outputs.X write the node's own map and inputs.X the step's; workflow.,
\* job., step., jobs.<id>. and steps.<id>. hand the rest of the name to that
\* node.
RECURSIVE TrySetName(_, _, _, _)
TrySetName(maps, n, name, value) ==
    IF Len(name) < 2 THEN Refused
    ELSE CASE name[1] = "" ->
                IF Len(name) < 3 THEN Raised("ValueError: not enough values to unpack")
                ELSE TrySetName(maps, n, Tail(name), value)
           [] name[1] \in {"env", "var", "outputs"} /\ Len(name) = 2 ->
                Written(maps, n, name[1], name[2], value)
           [] name[1] = "inputs" /\ Len(name) = 2 ->
                IF NodeType(n) = "step" THEN Written(maps, n, "inputs", name[2], value)
                ELSE Raised("ValueError: Can't find step")
           [] name[1] = "workflow" -> TrySetName(maps, "workflow", Tail(name), value)
           [] name[1] = "job" ->
                IF JobOf(n) = "" THEN Raised("ValueError: Can't find job")
                ELSE TrySetName(maps, JobOf(n), Tail(name), value)
           [] name[1] = "step" ->
                IF NodeType(n) # "step" THEN Raised("ValueError: Can't find step")
                ELSE TrySetName(maps, n, Tail(name), value)
           [] name[1] = "jobs" ->
                IF Len(name) < 3 THEN Raised("ValueError: not enough values to unpack")
                ELSE IF name[2] \notin JobsOfWorkflow THEN Raised("ValueError: Job not found")
                ELSE TrySetName(maps, name[2], Tail(Tail(name)), value)
           [] name[1] = "steps" ->
                IF JobOf(n) = "" THEN Raised("ValueError: Can't find job")
                ELSE IF Len(name) < 3 THEN Raised("ValueError: not enough values to unpack")
                ELSE IF name[2] \notin StepsOfJob(JobOf(n)) THEN Raised("ValueError: Step not found")
                ELSE TrySetName(maps, name[2], Tail(Tail(name)), value)
           [] OTHER -> Refused

\* Mutation: set_value ignores what _try_set_value returns.
SetOutcome_Quiet(written) == IF written.exc # "" THEN Err(written.exc) ELSE Val(None)

\* Node.set_value(name, value): ValueError when _try_set_value returns False.
SetOutcome(written) ==
    IF written.ok THEN Val(None)
    ELSE IF written.exc # "" THEN Err(written.exc)
    ELSE Err("ValueError: Invalid variable name")

\* Mutation: the result of the action is not kept on the step.
RecordResult_Dropped(res, n, result) == res

\* Action.execute: step.result = self.run(step)
RecordResult(res, n, result) == [res EXCEPT ![n] = result]

\* "=" in line
HasEq(line) == \E c \in 1..Len(line) : line[c] = "="

\* line.split("=", maxsplit=1) of a line with a "=": the text before the
\* first "=" and the text after it.
SplitFirst(line) ==
    LET c == CHOOSE d \in 1..Len(line) : line[d] = "=" /\ \A b \in 1..(d - 1) : line[b] # "="
    IN <<SubSeq(line, 1, c - 1), SubSeq(line, c + 1, Len(line))>>

\* output_result.stdout.splitlines() of `cat capture_file`: the lines of the
\* file without the empty lines at its end, which the rstrip() of
\* capture_subprocess_output removes.
RECURSIVE ReadBack(_)
ReadBack(lines) ==
    IF lines = <<>> THEN <<>>
    ELSE IF lines[Len(lines)] = <<>> THEN ReadBack(SubSeq(lines, 1, Len(lines) - 1))
    ELSE lines

\* outputs[k] = v
PutOutput(outputs, k, v) ==
    [key \in DOMAIN outputs \cup {k} |-> IF key = k THEN v ELSE outputs[key]]

\* Job.exec, the loop over the lines read back: k, v = line.split("=", 1);
\* context.outputs[k] = v.  A line without "=" does not unpack: ValueError.
RECURSIVE StoreLines(_, _)
StoreLines(lines, outputs) ==
    IF lines = <<>> THEN [ok |-> TRUE, outputs |-> outputs]
    ELSE IF ~HasEq(Head(lines)) THEN [ok |-> FALSE, outputs |-> outputs]
    ELSE StoreLines(Tail(lines),
                    PutOutput(outputs, SplitFirst(Head(lines))[1], SplitFirst(Head(lines))[2]))

\* bool(v) of a Python value.
Truthy(v) ==
    CASE v = None -> FALSE
      [] v.cls = "bool" -> v = PyBool(TRUE)
      [] v.cls = "int" -> IntOf(v.value) # 0
      [] OTHER -> v.value # <<>>

\* Mutation: a condition without placeholders is left as it is.
Wrap_Never(condition) == condition

\* can_dispatch: condition = "${{" + condition + "}}" when it has no "${{".
Wrap(condition) ==
    IF HasPlaceholder(condition) THEN condition
    ELSE [c \in 1..Len(condition) |->
            IF condition[c][1] = "bare" THEN <<"expr", condition[c][2]>> ELSE condition[c]]

\* can_dispatch(context) for the node's `if`: True when there is none, the
\* bool itself, bool(expand_expr(condition)) for a str, ValueError for
\* anything else.
CanDispatch(ctx, if, fuel) ==
    CASE if[1] = "null" -> Val(PyBool(TRUE))
      [] if[1] = "bool" -> Val(PyBool(if[2]))
      [] if[1] = "str" ->
           LET value == ExpandExpr(ctx, Wrap(if[2]), fuel)
           IN IF value.kind = "raise" THEN value ELSE Val(PyBool(Truthy(value.value)))
      [] OTHER -> Err("ValueError: Condition must be a bool or a string")

\* The context of the call under way.
Ctx == [maps |-> own, res |-> eval.res, attrs |-> eval.attrs, node |-> eval.node]

NoResult == [kind |-> "none", value |-> None, exc |-> ""]

\* Node.reset: _outputs = {} on every node.
NoOutputs == [n \in ScopeNodes |-> <<>>]

\* A call of function fn on a node, about to be made; ran is what the
\* action of the step returned, once it has; outputs is Node.outputs.
EvalCall(fn, node, res, attrs, arg) ==
    [pc |-> "call", fn |-> fn, node |-> node, res |-> res, attrs |-> attrs,
     arg |-> arg, i |-> 0, ran |-> ProcessResult, outputs |-> NoOutputs,
     result |-> NoResult]

\* node.get_value(name)
GetValueCall ==
    /\ eval.pc = "call"
    /\ eval.fn = "get_value"
    /\ eval' = [eval EXCEPT !.pc = "done",
                            !.result = NodeGetValue(Ctx, eval.arg, RecursionLimit)]
    /\ UNCHANGED <<dvars, ex, own, got, sets>>

\* node.get_inherited_attr(name, default)
GetInheritedAttrCall ==
    /\ eval.pc = "call"
    /\ eval.fn = "get_inherited_attr"
    /\ eval' = [eval EXCEPT !.pc = "done",
                            !.result = Val(get_inherited_attr(Ctx, eval.node, eval.arg.name,
                                                              eval.arg.default))]
    /\ UNCHANGED <<dvars, ex, own, got, sets>>

\* What the action of a step can return: it printed "42 " or nothing.
RunResults == { [returncode |-> 0, stdout |-> <<"4", "2", " ">>],
                [returncode |-> 0, stdout |-> <<>>] }

\* Action.execute(step), up to the `set` loop: the action runs and its
\* result is recorded on the step.
ActionRun ==
    /\ eval.pc = "call"
    /\ eval.fn = "execute"
    /\ \E result \in RunResults :
         eval' = [eval EXCEPT !.pc = "set", !.i = 1, !.ran = result,
                              !.res = RecordResult(eval.res, eval.node, result)]
    /\ UNCHANGED <<dvars, ex, own, got, sets>>

\* Action.execute(step), one turn of `for key, value in variables.items()`:
\* value = step.expand_expr(value); step.set_value(key, value).  After the
\* last one execute returns; an exception ends it.
SetAssign ==
    /\ eval.pc = "set"
    /\ IF eval.i > Len(eval.arg)
       THEN /\ eval' = [eval EXCEPT !.pc = "done", !.result = Val(None)]
            /\ own' = own
       ELSE LET key == eval.arg[eval.i][1]
                value == NodeExpandExpr(Ctx, eval.arg[eval.i][2], RecursionLimit)
                written == TrySetName(own, eval.node, key, value.value)
            IN IF value.kind = "raise"
               THEN /\ eval' = [eval EXCEPT !.pc = "done", !.result = value]
                    /\ own' = own
               ELSE IF ~written.ok
               THEN /\ eval' = [eval EXCEPT !.pc = "done", !.result = SetOutcome(written)]
                    /\ own' = own
               ELSE /\ eval' = [eval EXCEPT !.i = @ + 1]
                    /\ own' = written.maps
    /\ UNCHANGED <<dvars, ex, got, sets>>

\* Job.exec(command, context) for the next command of the job: the command
\* has run and left its capture file; the file is read back into the
\* outputs of the context.  arg[i] is <<context, lines of the file>>.
ExecCapture ==
    /\ eval.pc = "call"
    /\ eval.fn = "exec"
    /\ IF eval.i >= Len(eval.arg)
       THEN eval' = [eval EXCEPT !.pc = "done", !.result = Val(None)]
       ELSE LET context == eval.arg[eval.i + 1][1]
                stored == StoreLines(ReadBack(eval.arg[eval.i + 1][2]), eval.outputs[context])
            IN eval' = [eval EXCEPT
                          !.i = @ + 1,
                          !.outputs[context] = stored.outputs,
                          !.pc = IF stored.ok THEN "call" ELSE "done",
                          !.result = IF stored.ok THEN @ ELSE Err("ValueError: not enough values to unpack")]
    /\ UNCHANGED <<dvars, ex, own, got, sets>>

\* node.set_value(name, value), arg being <<name, value>>
SetValueCall ==
    /\ eval.pc = "call"
    /\ eval.fn = "set_value"
    /\ LET written == TrySetName(own, eval.node, eval.arg[1], eval.arg[2])
       IN /\ eval' = [eval EXCEPT !.pc = "done", !.result = SetOutcome(written)]
          /\ own' = IF written.ok THEN written.maps ELSE own
    /\ UNCHANGED <<dvars, ex, got, sets>>

\* A step definition without an "id" key.
NoId == <<>>

\* Job.__init__: step_dict["id"] = step_dict.get("id", f"step_{i+1}"), i
\* counting from 0 (position counts from 1).  An id is the string read as
\* <<text>> or, for "step_<n>", as <<"step_", n>>.
StepIds(step_dicts) ==
    [position \in 1..Len(step_dicts) |->
        IF step_dicts[position] = NoId THEN <<"step_", position>>
        ELSE step_dicts[position]]

\* next((step for step in job.steps if step.attrs.id == step_id), None): the
\* position of the first step with the id, 0 for None.
FirstStep(ids, step_id) ==
    IF \E k \in 1..Len(ids) : ids[k] = step_id
    THEN CHOOSE k \in 1..Len(ids) :
            ids[k] = step_id /\ \A m \in 1..(k - 1) : ids[m] # step_id
    ELSE 0

\* Job(parent, definition) for the step definitions arg[1], then the step
\* that a steps.<arg[2]> path finds in the job.
FindStepCall ==
    /\ eval.pc = "call"
    /\ eval.fn = "find_step"
    /\ LET ids == StepIds(eval.arg[1])
           step == FirstStep(ids, eval.arg[2])
       IN eval' = [eval EXCEPT !.pc = "done",
                               !.result = IF step = 0
                                          THEN Err("ValueError: Step not found")
                                          ELSE Val([ids |-> ids, step |-> step])]
    /\ UNCHANGED <<dvars, ex, own, got, sets>>

\* node.expand_expr(value)
ExpandExprCall ==
    /\ eval.pc = "call"
    /\ eval.fn = "expand_expr"
    /\ eval' = [eval EXCEPT !.pc = "done",
                            !.result = NodeExpandExpr(Ctx, eval.arg, RecursionLimit)]
    /\ UNCHANGED <<dvars, ex, own, got, sets>>

\* can_dispatch(node), the node's `if` being arg
CanDispatchCall ==
    /\ eval.pc = "call"
    /\ eval.fn = "can_dispatch"
    /\ eval' = [eval EXCEPT !.pc = "done",
                            !.result = CanDispatch(Ctx, eval.arg, RecursionLimit)]
    /\ UNCHANGED <<dvars, ex, own, got, sets>>

(***************************************************************************)
(* Workflow definitions the model is run on.                               *)
(***************************************************************************)
StepDef(if, coe, may_raise) ==
    [if |-> if, continue_on_error |-> coe, may_raise |-> may_raise]

JobDef(deps, coe, if, matrix, runs_on, stepdefs) ==
    [depends_on |-> deps, continue_on_error |-> coe, if |-> if, matrix |-> matrix,
     runs_on |-> runs_on, steps |-> stepdefs]

PlainStep == StepDef("absent", FALSE, FALSE)
RaisingStep == StepDef("absent", FALSE, TRUE)
PlainJob(deps) == JobDef(deps, FALSE, "absent", <<>>, "", <<PlainStep>>)
RaisingJob(deps) == JobDef(deps, FALSE, "absent", <<>>, "", <<RaisingStep>>)

WorkflowDef(matrix, runs_on, jobdefs) ==
    [matrix |-> matrix, runs_on |-> runs_on, jobs |-> jobdefs]

\* The elements of a set of numbers as an ascending sequence.
RECURSIVE Ascending(_)
Ascending(S) ==
    IF S = {} THEN <<>>
    ELSE LET m == CHOOSE x \in S : \A y \in S : x <= y
         IN <<m>> \o Ascending(S \ {m})

\* The sets of at most k elements of S.
RECURSIVE UpTo(_, _)
UpTo(S, k) ==
    IF k = 0 THEN {{}}
    ELSE LET smaller == UpTo(S, k - 1)
         IN smaller \cup {E \cup {e} : E \in smaller, e \in S}

\* Dependency graphs: NJobs plain jobs and at most MaxEdges depends_on entries
\* between different jobs.
DependencyWorkflows ==
    {WorkflowDef(<<>>, "",
        [j \in 1..NJobs |-> PlainJob(Ascending({e[2] : e \in {x \in E : x[1] = j}}))])
     : E \in UpTo({e \in (1..NJobs) \X (1..NJobs) : e[1] # e[2]}, MaxEdges)}

\* A dependency shared by two jobs of one dispatch (job1 needs job2 and job3,
\* job3 needs job2, in both orders of job1's list), and a cycle of three jobs;
\* the steps' actions can raise.
SharedDependencyWorkflows ==
    {WorkflowDef(<<>>, "", <<RaisingJob(d[1]), RaisingJob(d[2]), RaisingJob(d[3])>>)
     : d \in {<<<<2, 3>>, <<>>, <<2>>>>, <<<<3, 2>>, <<>>, <<2>>>>,
              <<<<2>>, <<3>>, <<1>>>>}}

\* depends_on entries that name the job itself, the same job twice, or no job.
OddDependencyWorkflows ==
    {WorkflowDef(<<>>, "", <<PlainJob(deps), PlainJob(<<1>>)>>)
     : deps \in {<<1>>, <<2, 2>>, <<3>>, <<3, 2>>}}

\* continue_on_error on jobs: NJobs independent one-step jobs.
ContinueWorkflows ==
    {WorkflowDef(<<>>, "",
        [j \in 1..NJobs |-> JobDef(<<>>, coe[j], "absent", <<>>, "", <<PlainStep>>)])
     : coe \in [1..NJobs -> BOOLEAN]}

\* The step lists of at most n steps.
RECURSIVE StepLists(_)
StepLists(n) ==
    IF n = 0 THEN {<<>>}
    ELSE LET shorter == StepLists(n - 1)
         IN shorter \cup
            {Append(l, step_def) :
                l \in {x \in shorter : Len(x) = n - 1},
                step_def \in {StepDef(if, coe, FALSE) :
                                 if \in {"absent", "false"}, coe \in BOOLEAN}
                             \cup {RaisingStep}}

\* Steps: one job, with or without a condition, of at most MaxSteps steps,
\* each with or without a false `if` and continue_on_error or with an action
\* that can raise, followed by a plain job that depends on it.
StepWorkflows ==
    {WorkflowDef(<<>>, "",
        <<JobDef(<<>>, FALSE, if, <<>>, "", l), PlainJob(<<1>>)>>)
     : l \in StepLists(MaxSteps), if \in {"absent", "expr"}}

Str_a == <<"a">>
Str_b == <<"b">>
Str_os == <<"o", "s">>
Str_v == <<"v">>
Axis(name, values) == [name |-> name, values |-> values]

\* Job matrices: the two-by-two example, a repeated value, an axis without
\* values, and two axes whose values hold the separators of the hash.
JobMatrices ==
    { <<>>,
      <<Axis(Str_os, <<Str_a, Str_b>>), Axis(Str_v, <<<<"1">>, <<"2">>>>)>>,
      <<Axis(Str_os, <<Str_a, Str_a>>)>>,
      <<Axis(Str_os, <<>>)>>,
      <<Axis(Str_a, <<<<"1">>, <<"1", "-", "b", ":", "2">>>>),
        Axis(Str_b, <<<<"2", "-", "b", ":", "3">>, <<"3">>>>)>> }

WfMatrices ==
    { <<>>, <<Axis(Str_os, <<Str_a, Str_b>>)>>, <<Axis(<<"x">>, <<<<"1">>, <<"2">>>>)>> }

\* Matrices: a one-step job with a matrix under a workflow with or without
\* one, and a plain job that depends on it.
MatrixWorkflows ==
    {WorkflowDef(wm, "",
        <<JobDef(<<>>, FALSE, "absent", jm, "", <<PlainStep>>), PlainJob(<<1>>)>>)
     : wm \in WfMatrices, jm \in JobMatrices}

\* Hosts: runs_on on the workflow and on a one-step job, and a plain job.
HostWorkflows ==
    {WorkflowDef(<<>>, wr,
        <<JobDef(<<>>, FALSE, "absent", <<>>, jr, <<RaisingStep>>), PlainJob(<<>>)>>)
     : wr \in {"", "docker", "docker_unstartable"},
       jr \in {"", "docker", "docker_unstartable"}}

\* Hosts and matrices: a workflow with runs_on and a job, with or without
\* runs_on, that runs over two bindings.
HostMatrixWorkflows ==
    {WorkflowDef(<<>>, "docker",
        <<JobDef(<<>>, FALSE, "absent", <<Axis(Str_os, <<Str_a, Str_b>>)>>, jr, <<PlainStep>>),
          PlainJob(<<>>)>>)
     : jr \in {"", "docker"}}

\* A job whose runs_on names its container, and a plain job.
NamedHostWorkflows ==
    {WorkflowDef(<<>>, "",
        <<JobDef(<<>>, FALSE, "absent", <<>>, "docker_named", <<PlainStep>>), PlainJob(<<>>)>>)}

\* A job with continue_on_error that runs over two bindings, and a plain job.
ContinueMatrixWorkflows ==
    {WorkflowDef(<<>>, "",
        <<JobDef(<<>>, TRUE, "absent", <<Axis(Str_os, <<Str_a, Str_b>>)>>, "", <<PlainStep>>),
          PlainJob(<<>>)>>)}

Workflows ==
    DependencyWorkflows \cup SharedDependencyWorkflows \cup OddDependencyWorkflows \cup ContinueWorkflows
        \cup StepWorkflows \cup MatrixWorkflows \cup HostWorkflows \cup HostMatrixWorkflows
        \cup NamedHostWorkflows \cup ContinueMatrixWorkflows

(***************************************************************************)
(* The specification.                                                      *)
(***************************************************************************)
\* After Workflow(definition): Node.reset's fields on every node, nothing
\* running, no container.
Init ==
    /\ cfg \in Workflows
    /\ wf = NodeReset
    /\ jobs = [j \in JobIds |-> NodeReset]
    /\ steps = [j \in JobIds |-> NewSteps(j)]
    /\ stack = <<>>
    /\ ret = NoRet
    /\ visited_jobs = {}
    /\ live = {}
    /\ started = 0
    /\ log = <<>>
    /\ call = Call("", 0, FALSE, jobs)
    /\ calls = 0
    /\ ex = NoCommand
    /\ own = NoValues
    /\ got = NoOp
    /\ sets = 0
    /\ eval = NoEval

Next ==
    \/ WorkflowDispatch
    \/ \E j \in JobIds, no_deps \in BOOLEAN : DispatchJob(j, no_deps)
    \/ WorkflowLoop
    \/ WorkflowJobReturned
    \/ DispatchJobCircular
    \/ DispatchJobMemoized
    \/ DispatchJobVisit
    \/ DispatchJobDeps
    \/ DispatchJobDepReturned
    \/ DispatchJobWfMatrix
    \/ DispatchJobJobMatrix
    \/ DispatchJobJobReturned
    \/ JobBegin
    \/ JobGate
    \/ StepDispatch
    \/ StepExecute
    \/ JobEnd
    \/ Unwind

Spec == Init /\ [][Next]_vars

(***************************************************************************)
(* The run of one command, on its own.                                     *)
(***************************************************************************)
Secrets == {<<"h", "i">>, <<"p", "w", "d">>}

Variables == {<<"w">>}

\* k=${{ secrets.x }}, ${{ "a" + secrets.x }}, ${{ secrets.x + var.y }},
\* ${{ secrets.x }}!, ${{ secrets.x }}, k=${{ var.y }} and k.
Templates ==
    { << <<"text", <<"k", "=">>>>, <<"expr", <<"secret">>>> >>,
      << <<"expr", <<"add", <<"str", <<"a">>>>, <<"secret">>>>>> >>,
      << <<"expr", <<"add", <<"secret">>, <<"var">>>>>> >>,
      << <<"expr", <<"secret">>>>, <<"text", <<"!">>>> >>,
      << <<"expr", <<"secret">>>> >>,
      << <<"text", <<"k", "=">>>>, <<"expr", <<"var">>>> >>,
      << <<"text", <<"k">>>> >> }

\* A step with a `run:` command is about to run it; no dispatch is modelled.
InitExpr ==
    /\ cfg = WorkflowDef(<<>>, "", <<>>)
    /\ wf = NodeReset
    /\ jobs = <<>>
    /\ steps = <<>>
    /\ stack = <<>>
    /\ ret = NoRet
    /\ visited_jobs = {}
    /\ live = {}
    /\ started = 0
    /\ log = <<>>
    /\ call = Call("", 0, FALSE, <<>>)
    /\ calls = 0
    /\ \E template \in Templates, secret \in Secrets, var \in Variables,
          echo_commands \in BOOLEAN, echo_output \in BOOLEAN :
         ex = [NoCommand EXCEPT !.pc = "run", !.template = template,
                                !.secret = secret, !.var = var,
                                !.echo_commands = echo_commands,
                                !.echo_output = echo_output]
    /\ own = NoValues
    /\ got = NoOp
    /\ sets = 0
    /\ eval = NoEval

NextExpr ==
    \/ RunExpand
    \/ RunEcho
    \/ JobExec
    \/ StreamOutput

SpecExpr == InitExpr /\ [][NextExpr]_vars

(***************************************************************************)
(* The value scopes, on their own.                                         *)
(***************************************************************************)
DefinedValues == {<<"1">>, <<"2">>}

SetValues == {<<"3">>}

\* A node tree whose definitions give one root's name a value, or none, on
\* each node; get_value and set_value are then called on it.
InitVars ==
    /\ cfg = WorkflowDef(<<>>, "", <<>>)
    /\ wf = NodeReset
    /\ jobs = <<>>
    /\ steps = <<>>
    /\ stack = <<>>
    /\ ret = NoRet
    /\ visited_jobs = {}
    /\ live = {}
    /\ started = 0
    /\ log = <<>>
    /\ call = Call("", 0, FALSE, <<>>)
    /\ calls = 0
    /\ ex = NoCommand
    /\ \E root \in Roots, name \in Names,
          defs \in [ScopeNodes -> DefinedValues \cup {Unset}] :
         own = [n \in ScopeNodes |->
                  [r \in Roots |->
                     [x \in Names |-> IF r = root /\ x = name THEN defs[n] ELSE Unset]]]
    /\ got = NoOp
    /\ sets = 0
    /\ eval = NoEval

NextVars ==
    \/ \E n \in ScopeNodes, root \in Roots, name \in Names : GetValue(n, root, name)
    \/ \E n \in ScopeNodes, root \in Roots, name \in Names, value \in SetValues :
         SetValue(n, root, name, value)

SpecVars == InitVars /\ [][NextVars]_vars

(***************************************************************************)
(* The value and expression functions, on their own.                       *)
(***************************************************************************)
EvalNames == {"X", "stdout", "V1", "V2", "V3", "V4", "V5", "V6", "V7"}

\* The maps of a node that set_value can write.
WritableRoots == {"env", "var", "inputs", "outputs"}

\* The own maps of a tree whose workflow and first step define variables.
VarMaps(wf_var, step_var) ==
    [n \in ScopeNodes |->
       [r \in WritableRoots |->
          [x \in EvalNames |->
             IF r = "var" /\ n = "workflow" /\ x \in DOMAIN wf_var THEN wf_var[x]
             ELSE IF r = "var" /\ n = "step1" /\ x \in DOMAIN step_var THEN step_var[x]
             ELSE Unset]]]

\* A str without placeholders, as a value of a map.
StrValue(chars) == <<"str", IF chars = <<>> THEN <<>> ELSE << <<"text", chars>> >> >>

\* What a definition can give the variables X and stdout.
PlainValues == {Unset, <<"null">>, <<"int", 2>>, StrValue(<<"N", "o">>), StrValue(<<>>)}

\* Results of the nodes: the first step has run and printed something, or nothing.
NodeResults ==
    { [n \in ScopeNodes |-> IF n = "step1" THEN [returncode |-> rc, stdout |-> out]
                            ELSE ProcessResult] :
        rc \in {0, 1}, out \in {<<>>, <<"Y", " ">>} }

NoAttrs == [n \in ScopeNodes |-> <<>>]

\* get_value of X, .X, var.X, stdout, .stdout, var.stdout and returncode on
\* the workflow and on the step.
GetValueCalls ==
    { [maps |-> VarMaps([stdout |-> a, X |-> b], [stdout |-> c]),
       call |-> EvalCall("get_value", n, res, NoAttrs, name)] :
        a \in PlainValues, b \in {Unset, <<"int", 2>>}, c \in {Unset, StrValue(<<"N", "o">>)},
        n \in {"workflow", "step1"}, res \in NodeResults,
        name \in {<<x>> : x \in {"X", "stdout", "returncode"}}
                 \cup {<<r, x>> : r \in {"", "var"}, x \in {"X", "stdout"}} }

AttrNames == {"shell", "working_directory", "echo_commands"}

\* The value a node's definition (or, with override, its set_attr) gives an
\* attribute: a str naming the node, a bool for echo_commands.
AttrValue(name, n, override) ==
    IF name = "echo_commands" THEN PyBool(FALSE)
    ELSE PyStr((IF override THEN <<"!">> ELSE <<>>) \o <<n>>)

\* The default the callers pass: DEFAULT_SHELL, none, True.
AttrDefault(name) ==
    CASE name = "shell" -> PyStr(Str_sh)
      [] name = "echo_commands" -> PyBool(TRUE)
      [] OTHER -> None

\* The dict with the one key name, or the empty dict.
OneKey(name, present, value) == [k \in (IF present THEN {name} ELSE {}) |-> value]

\* A workflow, its job and the job's step, each with the attribute in its
\* YAML or not, and at most one of them with a set_attr on top.
NodeAttrs(name, in_yaml, overridden) ==
    [n \in ScopeNodes |->
       LET data == OneKey(name, n \in in_yaml, AttrValue(name, n, FALSE))
       IN [yaml |-> data,
           attrs |-> Definition(NodeType(n), data),
           mutated |-> OneKey(name, n \in overridden, AttrValue(name, n, TRUE))]]

GetInheritedAttrCalls ==
    { [maps |-> VarMaps(<<>>, <<>>),
       call |-> EvalCall("get_inherited_attr", n, CHOOSE r \in NodeResults : TRUE,
                         NodeAttrs(name, in_yaml, overridden),
                         [name |-> name, default |-> AttrDefault(name)])] :
        name \in AttrNames, in_yaml \in SUBSET {"workflow", "job1", "step1"},
        overridden \in {{}, {"workflow"}, {"job1"}, {"step1"}},
        n \in {"job1", "step1"} }

\* The keys a `set` can have: var.X, .var.X, job.var.X, workflow.var.X and X.
SetKeys == { <<"var", "X">>, <<"", "var", "X">>, <<"job", "var", "X">>,
             <<"workflow", "var", "X">>, <<"X">> }

\* ${{ .stdout }}
StdoutTemplate == << <<"expr", <<"var", <<"", "stdout">>>>>> >>

\* The values a `set` can give: 2, 9 and "${{ .stdout }}".
SetExprs == { <<"int", 2>>, <<"int", 9>>, <<"str", StdoutTemplate>> }

\* The `set` dicts: up to MaxAssignments entries in their order, all keys different.
SetLists ==
    { l \in UNION { [1..k -> SetKeys \X SetExprs] : k \in 0..MaxAssignments } :
        \A a, b \in 1..Len(l) : a # b => l[a][1] # l[b][1] }

\* What the tree defines before the step runs: var.X is 1 on the workflow.
MapsBeforeStep == VarMaps([X |-> <<"int", 1>>], <<>>)

\* Fresh nodes: Node.reset gives each an empty result.
FreshResults == [n \in ScopeNodes |-> ProcessResult]

ExecuteCalls ==
    { [maps |-> MapsBeforeStep,
       call |-> EvalCall("execute", "step1", FreshResults, NoAttrs, l)] : l \in SetLists }

\* Lines a command can append to its capture file: K=1, K=2=3, J=, a line
\* without "=" and an empty line.
CaptureLines == { <<"K", "=", "1">>, <<"K", "=", "2", "=", "3">>, <<"J", "=">>, <<"x">>, <<>> }

CaptureFiles == UNION { [1..k -> CaptureLines] : k \in 0..MaxLines }

\* The first step of a job runs a command, then the second.
ExecCalls ==
    { [maps |-> VarMaps(<<>>, <<>>),
       call |-> EvalCall("exec", "job1", FreshResults, NoAttrs,
                         << <<"step1", f1>>, <<"step2", f2>> >>)] :
        f1 \in CaptureFiles, f2 \in CaptureFiles }

\* Operands: 1, 0, 'a', '', true, false, X, var.X and some.undefined.name.
Operands ==
    { <<"number", 1>>, <<"number", 0>>, <<"str", <<"a">>>>, <<"str", <<>>>>,
      <<"var", <<"true">>>>, <<"var", <<"false">>>>,
      <<"var", <<"X">>>>, <<"var", <<"var", "X">>>>,
      <<"var", <<"some", "undefined.name">>>> }

\* An operand, or the sum of two.
Expressions == Operands \cup { <<"add", a, b>> : a \in Operands, b \in Operands }

\* What the workflow can define X as: nothing, 2, "No", "" or "2".
XValues == {Unset, <<"int", 2>>, StrValue(<<"N", "o">>), StrValue(<<>>), StrValue(<<"2">>)}

\* The strings expanded: ${{ e }}, a${{ e }}b and, with a doubled $, $${{ e }}.
ExpandedStrings ==
    { << <<"expr", e>> >> : e \in Expressions }
    \cup { << <<"text", <<"a">>>>, <<"expr", e>>, <<"text", <<"b">>>> >> : e \in Operands }
    \cup { << <<"text", <<"$">>>>, <<"expr", e>> >> : e \in Operands }

ExpandExprCalls ==
    { [maps |-> VarMaps([X |-> x], <<>>),
       call |-> EvalCall("expand_expr", "step1", FreshResults, NoAttrs, <<"str", t>>)] :
        x \in XValues, t \in ExpandedStrings }

\* The `if` of a node: none, a bool, a number, a bare condition c and "${{ c }}".
Conditions ==
    { <<"null">>, <<"bool", TRUE>>, <<"bool", FALSE>>, <<"int", 1>> }
    \cup { <<"str", << <<"bare", e>> >> >> : e \in Expressions }
    \cup { <<"str", << <<"expr", e>> >> >> : e \in Expressions }

CanDispatchCalls ==
    { [maps |-> VarMaps([X |-> x], <<>>),
       call |-> EvalCall("can_dispatch", "step1", FreshResults, NoAttrs, if)] :
        x \in XValues, if \in Conditions }

\* The variables of a chain, in order.
ChainNames == <<"V1", "V2", "V3", "V4", "V5", "V6", "V7">>

\* The value "${{ var.x }}".
Reference(x) == <<"str", << <<"expr", <<"var", <<"var", x>>>>>> >> >>

\* var: of a workflow where each of the first k variables is a reference to
\* the next and the one after them is the text "e".
VarChain(k) ==
    [x \in {ChainNames[i] : i \in 1..(k + 1)} |->
       LET i == CHOOSE i \in 1..(k + 1) : ChainNames[i] = x
       IN IF i <= k THEN Reference(ChainNames[i + 1]) ELSE StrValue(<<"e">>)]

\* var: of a workflow where each of the first k variables is a reference to
\* the next and the last one to the first.
VarLoop(k) ==
    [x \in {ChainNames[i] : i \in 1..k} |->
       LET i == CHOOSE i \in 1..k : ChainNames[i] = x
       IN Reference(ChainNames[(i % k) + 1])]

\* expand_expr of "${{ var.V1 }}" and "${{ V1 }}" over chains and loops.
ChainCalls ==
    { [maps |-> VarMaps(wf_var, <<>>),
       call |-> EvalCall("expand_expr", n, FreshResults, NoAttrs,
                         <<"str", << <<"expr", <<"var", name>>>> >> >>)] :
        wf_var \in {VarChain(k) : k \in 0..(Len(ChainNames) - 1)} \cup {VarLoop(k) : k \in 1..2},
        n \in {"workflow", "step1"},
        name \in {<<"var", "V1">>, <<"V1">>} }

\* How a name can start: at the node, with a dot, at the workflow, job or
\* step of the node, at a job or a step given by its id, known or not.
Prefixes ==
    { <<>>, <<"">>, <<"workflow">>, <<"job">>, <<"step">>,
      <<"jobs", "job1">>, <<"jobs", "job2">>, <<"jobs", "job3">>,
      <<"steps", "step1">>, <<"steps", "step2">>, <<"steps", "step3">>,
      <<"jobs", "job1", "steps", "step2">>, <<"jobs", "job2", "steps", "step1">> }

\* How it can go on: X of a map, writable or not, the bare X, nothing.
Suffixes ==
    { <<r, "X">> : r \in WritableRoots \cup {"secrets", "matrix"} }
    \cup { <<"X">>, <<>> }

\* The trees the names are used on: job1 defines var.X and env.X, or nothing does.
PathMaps ==
    { [n \in ScopeNodes |->
         [r \in WritableRoots |->
            [x \in EvalNames |->
               IF defined /\ n = "job1" /\ r \in {"env", "var"} /\ x = "X"
               THEN <<"int", 1>> ELSE Unset]]] : defined \in BOOLEAN }

\* The names: a start and a continuation, the two not both empty.
PathNames == { prefix \o suffix : prefix \in Prefixes, suffix \in Suffixes } \ {<<>>}

\* set_value of "3" and get_value under every such name, on each kind of node.
PathCalls ==
    { [maps |-> maps,
       call |-> EvalCall(fn, n, FreshResults, NoAttrs,
                         IF fn = "set_value" THEN <<name, PyStr(<<"3">>)>> ELSE name)] :
        maps \in PathMaps, fn \in {"set_value", "get_value"},
        n \in {"workflow", "job1", "job2", "step1"}, name \in PathNames }

\* The ids a step definition can give: none, a name, and names of the form
\* of the default ones.
GivenIds == {NoId, <<"a">>, <<"step_", 1>>, <<"step_", 2>>}

\* The step definitions of a job of one to MaxSteps steps.
RECURSIVE StepDicts(_)
StepDicts(n) ==
    IF n = 0 THEN {<<>>}
    ELSE {Append(l, id) : l \in StepDicts(n - 1), id \in GivenIds}

\* Jobs of one to MaxSteps steps and a steps.<id> path into each.
FindStepCalls ==
    { [maps |-> NoValues,
       call |-> EvalCall("find_step", "job1", FreshResults, NoAttrs, <<l, id>>)] :
        l \in UNION {StepDicts(n) : n \in 1..MaxSteps}, id \in GivenIds \ {NoId} }

EvalCalls == FindStepCalls \cup GetValueCalls \cup GetInheritedAttrCalls \cup ExecuteCalls
             \cup ExecCalls \cup ExpandExprCalls \cup CanDispatchCalls \cup PathCalls
             \cup ChainCalls

InitEval ==
    /\ cfg = WorkflowDef(<<>>, "", <<>>)
    /\ wf = NodeReset
    /\ jobs = <<>>
    /\ steps = <<>>
    /\ stack = <<>>
    /\ ret = NoRet
    /\ visited_jobs = {}
    /\ live = {}
    /\ started = 0
    /\ log = <<>>
    /\ call = Call("", 0, FALSE, <<>>)
    /\ calls = 0
    /\ ex = NoCommand
    /\ got = NoOp
    /\ sets = 0
    /\ \E c \in EvalCalls : own = c.maps /\ eval = c.call

NextEval ==
    \/ GetValueCall
    \/ GetInheritedAttrCall
    \/ ActionRun
    \/ SetAssign
    \/ ExecCapture
    \/ ExpandExprCall
    \/ CanDispatchCall
    \/ SetValueCall
    \/ FindStepCall

SpecEval == InitEval /\ [][NextEval]_vars

(***************************************************************************)
(* Properties.                                                             *)
(***************************************************************************)
\* The jobs a job names in depends_on, and those it reaches through them.
Deps(j) ==
    {cfg.jobs[j].depends_on[k] : k \in 1..Len(cfg.jobs[j].depends_on)} \cap JobIds

RECURSIVE Closure(_, _)
Closure(S, n) ==
    IF n = 0 THEN S ELSE Closure(S \cup UNION {Deps(x) : x \in S}, n - 1)

TransitiveDeps(j) == Closure(Deps(j), Len(cfg.jobs))

Acyclic == \A j \in JobIds : j \notin TransitiveDeps(j)

\* The positions of the log where a step of job j was executed.
Execs(j) == {k \in 1..Len(log) : log[k].ev = "exec" /\ log[k].job = j}

\* The frame that called the innermost one.
Caller == stack[Len(stack) - 1]

\* In this step job B, dispatched by a __dispatch_job with no_deps=False in a
\* top-level call that found every job PENDING, becomes RUNNING or executes a
\* step.
Begins(B) ==
    /\ \A j \in JobIds : call.jobs[j].status = PENDING
    /\ Len(stack) > 1
    /\ Top.fn = "job"
    /\ Top.job = B
    /\ ~Caller.no_deps
    /\ \/ jobs[B].status # RUNNING /\ jobs'[B].status = RUNNING
       \/ Len(log') > Len(log) /\ log'[Len(log')].ev = "exec"

\* C1: when a job B is dispatched through dispatch_job with no_deps=false,
\* every job B depends on, directly or transitively, has status FINISHED
\* before B becomes RUNNING or executes a step.
C1_DependenciesFinishedFirst ==
    [][\A B \in JobIds :
         Begins(B) => \A A \in TransitiveDeps(B) : jobs[A].status = FINISHED]_vars

\* A __dispatch_job frame has just got a failed result from a dependency.
DependencyReturnedFailed == Returned("dispatch_job", "dep_ret") /\ failed(ret.val)

\* C2: when a dependency of a job returns a failed result, __dispatch_job
\* returns that same result at once: no further dependency is dispatched, no
\* step is executed, and the dependent job (and every other node) is left as
\* it was, which is PENDING when the top-level call found it PENDING.
C2_FailedDependencyShortCircuits ==
    [][DependencyReturnedFailed =>
         /\ stack' = Pop
         /\ ret' = Return(ret.val)
         /\ jobs' = jobs
         /\ steps' = steps
         /\ log' = log
         /\ Execs(Top.job) = {}
         /\ call.jobs[Top.job].status = PENDING => jobs'[Top.job].status = PENDING]_vars

\* dispatch_job(B, no_deps=False) has returned the failed result of another
\* job's step, B is still PENDING and none of its steps was executed.
C2_Witness ==
    \E B \in JobIds :
        /\ call.fn = "dispatch_job" /\ call.job = B /\ ~call.no_deps
        /\ stack = <<>>
        /\ ret.kind = "return" /\ failed(ret.val)
        /\ ret.val.stdout # <<>> /\ ret.val.stdout[1] # B
        /\ jobs[B].status = PENDING
        /\ Execs(B) = {}

\* Jobs a and b depend on each other and on nothing else.
OnlyDependsOn(a, b) ==
    /\ cfg.jobs[a].depends_on # <<>>
    /\ \A k \in 1..Len(cfg.jobs[a].depends_on) : cfg.jobs[a].depends_on[k] = b

Mutual(a, b) == a # b /\ OnlyDependsOn(a, b) /\ OnlyDependsOn(b, a)

\* A dispatch_job(a, no_deps=False) that found a and b PENDING.
CircularCall(a, b) ==
    /\ Mutual(a, b)
    /\ call.fn = "dispatch_job" /\ call.job = a /\ ~call.no_deps
    /\ call.jobs[a].status = PENDING /\ call.jobs[b].status = PENDING

\* C3: for two jobs that depend on each other, dispatch_job of either with
\* no_deps=false ends by raising CircularDependencyError, the walk stops at the
\* first job met again, no step of either job executes and both stay PENDING.
C3_CircularDependencyRaises ==
    \A a, b \in JobIds :
        CircularCall(a, b) =>
            /\ Execs(a) = {} /\ Execs(b) = {}
            /\ jobs[a].status = PENDING /\ jobs[b].status = PENDING
            /\ stack = <<>> => ret = Raise("CircularDependencyError")
            /\ \A m, n \in 1..Len(stack) :
                 (/\ m < n
                  /\ stack[m].fn = "dispatch_job" /\ stack[n].fn = "dispatch_job"
                  /\ stack[m].job = stack[n].job) => stack[n].pc = "enter"

\* The call has ended with the error.
C3_Witness ==
    \E a, b \in JobIds :
        CircularCall(a, b) /\ stack = <<>> /\ ret = Raise("CircularDependencyError")

\* C4: in an acyclic dependency graph a job that several jobs of one
\* dispatch_job call depend on executes each of its steps once, and the call
\* does not raise CircularDependencyError.
C4_SharedDependencyRunsOnce ==
    (Acyclic /\ call.fn = "dispatch_job" /\ ~call.no_deps) =>
        /\ ret.exc # "CircularDependencyError"
        /\ \A j \in JobIds : \A k, l \in Execs(j) :
             (log[k].step = log[l].step /\ log[k].matrix = log[l].matrix) => k = l

\* dispatch_job is entered from outside (not for a dependency) on a job that
\* is FINISHED.
PublicCallOnFinished ==
    /\ Running("dispatch_job", "enter")
    /\ Len(stack) = 1 \/ Caller.fn = "dispatch"
    /\ jobs[Top.job].status = FINISHED

\* C5: dispatch_job on a FINISHED job returns the job's recorded result and
\* changes nothing: result, status and every other field of every job and
\* step stay as they are, no step is executed and no dependency dispatched,
\* for a successful and for a failed recorded result alike.
C5_FinishedJobIsMemoized ==
    [][PublicCallOnFinished =>
         /\ stack' = Pop
         /\ ret' = Return(jobs[Top.job].result)
         /\ jobs' = jobs
         /\ steps' = steps
         /\ log' = log]_vars

\* A second dispatch_job on a job that an earlier call left FINISHED with a
\* failed result has returned that result, having run nothing.
C5_Witness ==
    /\ call.fn = "dispatch_job"
    /\ call.jobs[call.job].status = FINISHED
    /\ failed(call.jobs[call.job].result)
    /\ cfg.jobs[call.job].depends_on # <<>>
    /\ stack = <<>>
    /\ ret = Return(jobs[call.job].result)
    /\ log = <<>>

\* Step s of job j has finished with a failed result.
FailedStep(j, s) == steps[j][s].status = FINISHED /\ failed(steps[j][s].result)

\* After a failed step without continue_on_error every later step of the job
\* is PENDING and the job's result is the step's.
StepFailureStopsJob ==
    \A j \in JobIds : \A s \in 1..Len(steps[j]) :
        (FailedStep(j, s) /\ ~cfg.jobs[j].steps[s].continue_on_error) =>
            /\ \A t \in (s + 1)..Len(steps[j]) : steps[j][t].status = PENDING
            /\ jobs[j].result = steps[j][s].result
            /\ jobs[j].failed

\* A step that fails with continue_on_error leaves the loop at the next step,
\* and a loop that stands at a step dispatches that step.
StepLoopGoesOn ==
    /\ (/\ Running("job", "action")
        /\ failed(steps'[Top.job][Top.i].result)
        /\ cfg.jobs[Top.job].steps[Top.i].continue_on_error)
       => /\ Len(stack') = Len(stack)
          /\ stack'[Len(stack)].pc = "steps"
          /\ stack'[Len(stack)].i = Top.i + 1
          /\ jobs'[Top.job].result = steps'[Top.job][Top.i].result
    /\ (Running("job", "steps") /\ Top.i <= Len(steps[Top.job]))
       => steps'[Top.job][Top.i].status \in {RUNNING, SKIPPED}

\* C6: when a step's result is failed and the step does not set
\* continue_on_error, no later step of the job is dispatched (they stay
\* PENDING) and the job's result is that failed result; when the step sets
\* continue_on_error, the next step is dispatched.
C6_StepFailureStopsJob == []StepFailureStopsJob /\ [][StepLoopGoesOn]_vars

\* A job of two steps has ended after its first step failed: the second is
\* still PENDING and the job's result is the first step's.
C6_Witness ==
    \E j \in JobIds :
        /\ Len(steps[j]) = 2
        /\ FailedStep(j, 1) /\ ~cfg.jobs[j].steps[1].continue_on_error
        /\ steps[j][2].status = PENDING
        /\ jobs[j].status = FINISHED /\ jobs[j].result = steps[j][1].result
        /\ stack = <<>>

\* The jobs the loop of Workflow.dispatch has called dispatch_job on, in order.
Dispatched ==
    LET L == SelectSeq(log, LAMBDA e : e.ev = "dispatch_job")
    IN [k \in 1..Len(L) |-> L[k].job]

\* During Workflow.dispatch the k-th job dispatched is the k-th job declared;
\* when the call has returned with jobs left undispatched, the last one
\* dispatched failed without continue_on_error and the workflow's result, which
\* is returned, is that failed result.
WorkflowOrder ==
    call.fn = "dispatch" =>
        /\ \A k \in 1..Len(Dispatched) : Dispatched[k] = k
        /\ (stack = <<>> /\ ret.kind = "return" /\ Len(Dispatched) < Len(cfg.jobs)) =>
              /\ Len(Dispatched) > 0
              /\ ~cfg.jobs[Len(Dispatched)].continue_on_error
              /\ failed(wf.result) /\ wf.failed
              /\ ret.val = wf.result

\* The loop of Workflow.dispatch: a failed result of a job without
\* continue_on_error is recorded and returned at once; any other result is
\* recorded and the loop moves to the next job, which it dispatches with
\* no_deps=False.
WorkflowLoopStep ==
    /\ Returned("dispatch", "job_ret") =>
         IF failed(ret.val) /\ ~cfg.jobs[Top.i].continue_on_error
         THEN /\ stack' = <<>>
              /\ ret' = Return(ret.val)
              /\ wf'.result = ret.val /\ wf'.failed
              /\ log' = log
         ELSE /\ Len(stack') = 1
              /\ stack'[1].pc = "loop" /\ stack'[1].i = Top.i + 1
              /\ wf'.result = ret.val
    /\ (Running("dispatch", "loop") /\ Top.i <= Len(cfg.jobs)) =>
         /\ Len(stack') = 2
         /\ stack'[2].fn = "dispatch_job" /\ stack'[2].job = Top.i
         /\ ~stack'[2].no_deps
         /\ log' = Append(log, Event("dispatch_job", Top.i, 0, <<>>))

\* C7: Workflow.dispatch dispatches the jobs in declaration order; once a
\* job's result is failed and the job does not set continue_on_error no later
\* job is dispatched and the workflow's result is that failed result; if the
\* job sets continue_on_error the following jobs are still dispatched.
C7_WorkflowFailureStopsJobs == []WorkflowOrder /\ [][WorkflowLoopStep]_vars

\* Workflow.dispatch has returned: job 1 failed with continue_on_error, job 2
\* was dispatched and failed without it, job 3 was never dispatched.
C7_Witness ==
    /\ call.fn = "dispatch" /\ stack = <<>> /\ ret.kind = "return"
    /\ Len(cfg.jobs) = 3
    /\ cfg.jobs[1].continue_on_error /\ failed(jobs[1].result)
    /\ ~cfg.jobs[2].continue_on_error /\ failed(jobs[2].result)
    /\ Dispatched = <<1, 2>>
    /\ jobs[3].status = PENDING
    /\ wf.result = jobs[2].result

\* A step is past PENDING only when every earlier step of its job is FINISHED
\* or SKIPPED, and between two dispatches of a job its steps are executed in
\* ascending position.
StepsInOrder ==
    \A j \in JobIds :
        /\ \A s, t \in 1..Len(steps[j]) :
             (s < t /\ steps[j][t].status # PENDING) =>
                 steps[j][s].status \in {FINISHED, SKIPPED}
        /\ \A k, l \in Execs(j) :
             (k < l /\ \A m \in k..l : ~(log[m].ev = "job" /\ log[m].job = j)) =>
                 log[k].step < log[l].step

\* A step becomes RUNNING or SKIPPED from PENDING only.
StepDispatchedOnce ==
    \A j \in JobIds : \A s \in 1..Len(steps[j]) :
        (/\ steps'[j][s].status # steps[j][s].status
         /\ steps'[j][s].status \in {RUNNING, SKIPPED}) =>
            steps[j][s].status = PENDING

\* C8: within one job dispatch the steps are dispatched strictly in
\* declaration order: step i+1 is not started until step i is FINISHED or
\* SKIPPED, and no step is dispatched twice.
C8_StepsInDeclarationOrder == []StepsInOrder /\ [][StepDispatchedOnce]_vars

\* A job of two steps has executed both, the first before the second.
C8_Witness ==
    \E j \in JobIds :
        /\ Len(steps[j]) = 2
        /\ steps[j][1].status = FINISHED /\ steps[j][2].status = FINISHED
        /\ \E k, l \in Execs(j) : k < l /\ log[k].step = 1 /\ log[l].step = 2

\* The matrix bindings job j was dispatched with, in order.
JobRuns(j) ==
    LET L == SelectSeq(log, LAMBDA e : e.ev = "job" /\ e.job = j)
    IN [k \in 1..Len(L) |-> L[k].matrix]

\* A sequence without the later occurrences of its elements.
RECURSIVE Distinct(_)
Distinct(seq) ==
    IF seq = <<>> THEN <<>>
    ELSE LET front == Distinct(SubSeq(seq, 1, Len(seq) - 1))
             last == seq[Len(seq)]
         IN IF \E k \in 1..Len(front) : front[k] = last THEN front
            ELSE Append(front, last)

\* dispatch_job on job j, which it found PENDING, has returned a result that
\* is not failed; j has a matrix and the workflow has none.
MatrixJobDispatched(j) ==
    /\ call.fn = "dispatch_job" /\ call.job = j
    /\ call.jobs[j].status = PENDING
    /\ cfg.matrix = <<>> /\ cfg.jobs[j].matrix # <<>>
    /\ stack = <<>> /\ ret.kind = "return" /\ ~failed(ret.val)

\* C9: a job with a matrix is dispatched exactly once per element of the
\* cartesian product of its axes, in nested-loop order with the axes in
\* declaration order and the last axis varying fastest.
C9_MatrixProductOrder ==
    \A j \in JobIds :
        MatrixJobDispatched(j) =>
            JobRuns(j) = Distinct(_generate_matrices(cfg.jobs[j].matrix))

\* Does the text hold the other as a substring?
Contains(text, part) ==
    \E k \in 1..(Len(text) - Len(part) + 1) : SubSeq(text, k, k + Len(part) - 1) = part

\* C10: no secret value appears unredacted in anything written to the log,
\* also when it was concatenated with literal text or other values, while the
\* command that is executed receives the real value.
C10_SecretsRedactedInLog ==
    /\ \A k \in 1..Len(ex.sink) : ~Contains(ex.sink[k], ex.secret)
    /\ ex.pc \in {"output", "done"} =>
          /\ ex.executed = ex.command.value
          /\ ex.command.redacted_value # ex.command.value => Contains(ex.executed, ex.secret)

\* The `with prepare_host(self, ...)` block of this activation is open and
\* has prepared the workflow's host.
WorkflowHostOpen(f) ==
    f.fn = "dispatch_job" /\ f.pc \in {"job_matrix", "job_ret"} /\ f.wf_ctx.cleanup_host

\* While the workflow's own host scope is open its host is live.
InheritedHostLive ==
    \A k \in 1..Len(stack) : WorkflowHostOpen(stack[k]) => wf.runs_on_host \in live

\* No step of the dispatch of a job without runs_on stops the workflow's host.
JobKeepsInheritedHost ==
    (/\ stack # <<>> /\ Top.fn = "job"
     /\ cfg.jobs[Top.job].runs_on = ""
     /\ wf.runs_on_host \in live) => wf.runs_on_host \in live'

\* C11: a job without runs_on uses the workflow's prepared host and never
\* tears it down: the host is live while the workflow's host scope is open
\* (for the next job, for the next matrix binding of the same job) and only
\* the exit of that scope stops it.
C11_InheritedHostNotTornDown == []InheritedHostLive /\ [][JobKeepsInheritedHost]_vars

\* C12: every host prepared for a node with its own runs_on is torn down by
\* the time the node's dispatch returns, whatever the exit path (success,
\* failure, skip, exception): when no dispatch is running no container started
\* by the dispatcher is live.
C12_NoHostOutlivesDispatch == stack = <<>> => live = {}

\* One status change of a node: RUNNING from PENDING (a job also from
\* SKIPPED), FINISHED and SKIPPED from RUNNING.  A status that turns PENDING
\* belongs to a node built anew in the place of the old one.
LegalStatusChange(old, new, is_job) ==
    \/ new = old
    \/ new = PENDING
    \/ new = RUNNING /\ (old = PENDING \/ (is_job /\ old = SKIPPED))
    \/ new \in {FINISHED, SKIPPED} /\ old = RUNNING

\* C13: every status change of a workflow, job or step follows
\* PENDING -> RUNNING -> FINISHED or SKIPPED: a node becomes SKIPPED or
\* FINISHED only from RUNNING, and RUNNING only from PENDING, or from SKIPPED
\* when a skipped job is dispatched again.  (The start of a new dispatch pass
\* of the workflow is not counted as a change.)
C13_StatusTransitions ==
    [][/\ stack # <<>> => LegalStatusChange(wf.status, wf'.status, FALSE)
       /\ \A j \in JobIds :
            /\ LegalStatusChange(jobs[j].status, jobs'[j].status, TRUE)
            /\ \A s \in 1..Len(steps[j]) :
                 LegalStatusChange(steps[j][s].status, steps'[j][s].status, FALSE)]_vars

\* A pass of Workflow.dispatch is under way.
InDispatchPass == call.fn = "dispatch" /\ stack # <<>>

\* C14: within one pass of Workflow.dispatch a job whose status is FINISHED
\* keeps that status, and a FINISHED step is never dispatched again (its
\* place may be taken by a new PENDING step when the job is reset), with or
\* without a matrix on the job or the workflow.
C14_FinishedIsTerminal ==
    [][InDispatchPass =>
         \A j \in JobIds :
             /\ jobs[j].status = FINISHED => jobs'[j].status = FINISHED
             /\ \A s \in 1..Len(steps[j]) :
                  steps[j][s].status = FINISHED =>
                      steps'[j][s].status \in {FINISHED, PENDING}]_vars

\* In this step the step the loop of Job.dispatch stands at is skipped.
StepIsSkipped ==
    /\ Running("job", "steps")
    /\ Top.i <= Len(steps[Top.job])
    /\ steps'[Top.job][Top.i].status = SKIPPED

\* C15: a step whose `if` is false ends SKIPPED without running its action
\* (nothing is executed, so no output is recorded and no `set` applied; the
\* step's own result stays empty), and the owning job's result is what it was
\* before the step was dispatched.
C15_SkippedStepHasNoEffect ==
    [][StepIsSkipped =>
         /\ log' = log
         /\ steps'[Top.job][Top.i].result = ProcessResult
         /\ ~steps'[Top.job][Top.i].failed
         /\ jobs'[Top.job].result = jobs[Top.job].result]_vars

\* dispatch_job is entered on a job that is SKIPPED and not yet visited.
EnteredOnSkipped ==
    /\ Running("dispatch_job", "enter")
    /\ jobs[Top.job].status = SKIPPED
    /\ Top.job \notin visited_jobs

\* The gate of Job.dispatch is reached for a job the top-level call found SKIPPED.
GateOfSkipped ==
    /\ Running("job", "gate")
    /\ call.fn = "dispatch_job"
    /\ call.jobs[Top.job].status = SKIPPED

\* An entry on a SKIPPED job goes on to the dependency walk instead of
\* returning, and at the gate the condition decides anew: the job goes on to
\* its steps or is SKIPPED again.
SkippedJobGoesOn ==
    /\ EnteredOnSkipped =>
          /\ Len(stack') = Len(stack)
          /\ stack'[Len(stack)].pc = "deps"
          /\ ret' = NoRet
    /\ GateOfSkipped =>
          \/ /\ Len(stack') = Len(stack)
             /\ stack'[Len(stack)].pc = "steps" /\ stack'[Len(stack)].i = 1
             /\ jobs'[Top.job].status = RUNNING
          \/ /\ stack' = Pop
             /\ jobs'[Top.job].status = SKIPPED

\* A dispatch_job that found its job SKIPPED and has ended: if Job.dispatch
\* was called and the condition held, the job is FINISHED and its steps were
\* dispatched from the first on.
SkippedJobRan ==
    (/\ call.fn = "dispatch_job"
     /\ call.jobs[call.job].status = SKIPPED
     /\ stack = <<>>
     /\ JobRuns(call.job) # <<>>
     /\ jobs[call.job].status # SKIPPED) =>
        /\ jobs[call.job].status = FINISHED
        /\ steps[call.job] # <<>> => steps[call.job][1].status \in {FINISHED, SKIPPED}

\* C16: dispatch_job on a job whose status is SKIPPED evaluates the job's
\* condition again and, when it holds now, runs the steps and leaves the job
\* FINISHED; the earlier SKIPPED status does not short-circuit the dispatch.
C16_SkippedJobIsRedispatched == []SkippedJobRan /\ [][SkippedJobGoesOn]_vars

\* A second dispatch_job on a job an earlier call left SKIPPED has executed a
\* step of it and left it FINISHED.
C16_Witness ==
    /\ call.fn = "dispatch_job"
    /\ call.jobs[call.job].status = SKIPPED
    /\ stack = <<>> /\ ret.kind = "return"
    /\ jobs[call.job].status = FINISHED
    /\ Execs(call.job) # {}

\* C17: dispatch_job(job, no_deps=true) dispatches only the requested job:
\* for no other job, the jobs of its depends_on among them, is __dispatch_job
\* entered, Job.dispatch called or a step executed, and every field of such a
\* job (status, result, ...) stays as the call found it.
C17_NoDepsDispatchesOnlyTheJob ==
    (call.fn = "dispatch_job" /\ call.no_deps) =>
        /\ \A k \in 1..Len(stack) : stack[k].job = call.job
        /\ \A d \in JobIds \ {call.job} :
             /\ jobs[d] = call.jobs[d]
             /\ JobRuns(d) = <<>>
             /\ Execs(d) = {}

\* dispatch_job(B, no_deps=True) has run B to FINISHED while a job of B's
\* depends_on is still PENDING.
C17_Witness ==
    /\ call.fn = "dispatch_job" /\ call.no_deps
    /\ stack = <<>> /\ ret.kind = "return"
    /\ jobs[call.job].status = FINISHED /\ Execs(call.job) # {}
    /\ \E d \in Deps(call.job) \ {call.job} :
          jobs[d].status = PENDING /\ jobs[d].result = ProcessResult

\* The merged bindings of the two nested loops of __dispatch_job for job j,
\* in loop order: the workflow's bindings outside, the job's inside.
MergedBindings(j) ==
    LET wms == _generate_matrices(cfg.matrix)
        jms == _generate_matrices(cfg.jobs[j].matrix)
    IN [k \in 1..(Len(wms) * Len(jms)) |->
           MergeMatrix(wms[((k - 1) \div Len(jms)) + 1], jms[((k - 1) % Len(jms)) + 1])]

\* dispatch_job on job j, which it found PENDING, has returned a result that
\* is not failed; the workflow and j both have a matrix.
BothMatricesDispatched(j) ==
    /\ call.fn = "dispatch_job" /\ call.job = j
    /\ call.jobs[j].status = PENDING
    /\ cfg.matrix # <<>> /\ cfg.jobs[j].matrix # <<>>
    /\ stack = <<>> /\ ret.kind = "return" /\ ~failed(ret.val)

\* C18: with a matrix on the workflow and on the job, the job runs over the
\* outer product of the two: in one dispatch of the job every distinct merged
\* binding is executed once and none twice; two different bindings are never
\* taken for the same combination.
C18_MergedBindingsRunOnce ==
    \A j \in JobIds :
        BothMatricesDispatched(j) => JobRuns(j) = Distinct(MergedBindings(j))

\* The chain node, parent, ..., workflow.
RECURSIVE Chain(_)
Chain(n) == IF n = "" THEN <<>> ELSE <<n>> \o Chain(parent(n))

\* The nearest node of n's chain whose own map has the name; "" if none has.
Nearest(maps, n, root, name) ==
    LET c == Chain(n)
        D == {k \in 1..Len(c) : maps[c[k]][root][name] # Unset}
    IN IF D = {} THEN "" ELSE c[CHOOSE k \in D : \A l \in D : k <= l]

Descendants(n) ==
    {d \in ScopeNodes \ {n} : \E k \in 1..Len(Chain(d)) : Chain(d)[k] = n}

\* A node between d (included) and its ancestor n (excluded) defines the name.
Shadowed(maps, d, n, root, name) ==
    \E k \in 1..Len(Chain(d)) :
        /\ \A l \in 1..k : Chain(d)[l] # n
        /\ maps[Chain(d)[k]][root][name] # Unset

\* This step is a set_value of env.X or var.X.
IsSet == sets' = sets + 1 /\ CanSet(got'.root)

\* The node reads the value v.
Reads(maps, n, root, name, v) ==
    LET r == get_value(maps, n, root, name)
    IN r.kind = "return" /\ r.value.value = v

BareGot == eval.pc = "done" /\ eval.fn = "get_value" /\ Len(eval.arg) = 1

\* What get_value('.x') and get_value('var.x') give in the state of the call.
MemberOf(x) == NodeGetValue(Ctx, <<"", x>>, RecursionLimit)

VarOf(x) == NodeGetValue(Ctx, <<"var", x>>, RecursionLimit)

C21_BareNameAmbiguity ==
    BareGot =>
        LET x == eval.arg[1]
        IN /\ (MemberOf(x).kind = "return" /\ VarOf(x).kind = "return") =>
                 /\ eval.result.kind = "raise"
                 /\ eval.result.exc = "ValueError: Ambiguous value reference"
           /\ (MemberOf(x).kind = "return" /\ VarOf(x).kind = "raise") =>
                 eval.result = MemberOf(x)
           /\ (MemberOf(x).kind = "raise" /\ VarOf(x).kind = "return") =>
                 eval.result = VarOf(x)

\* get_value('stdout') raised on a step that printed something while the
\* workflow defines var.stdout.
C21_Witness ==
    /\ BareGot
    /\ eval.node = "step1"
    /\ eval.arg = <<"stdout">>
    /\ eval.result.exc = "ValueError: Ambiguous value reference"
    /\ MemberOf("stdout") = Val(PyStr(<<"Y">>))
    /\ VarOf("stdout") = Val(PyStr(<<"N", "o">>))
    /\ own["step1"]["var"]["stdout"] = Unset

(***************************************************************************)
(* C22: the effective value of shell, working_directory or echo_commands   *)
(* for a node is the one set on the nearest of the node and its ancestors  *)
(* (a set_attr on a node before the definition of that node), and the      *)
(* supplied default only when none of them sets it.                        *)
(***************************************************************************)
\* What the nearest node that sets the attribute gives, from n upwards.
RECURSIVE NearestSetting(_, _, _, _)
NearestSetting(attrs, n, name, default) ==
    IF n = "" THEN default
    ELSE IF name \in DOMAIN attrs[n].mutated THEN attrs[n].mutated[name]
    ELSE IF name \in DOMAIN attrs[n].yaml THEN attrs[n].yaml[name]
    ELSE NearestSetting(attrs, parent(n), name, default)

C22_AttributesCascade ==
    (eval.pc = "done" /\ eval.fn = "get_inherited_attr") =>
        eval.result = Val(NearestSetting(eval.attrs, eval.node, eval.arg.name,
                                         eval.arg.default))

(***************************************************************************)
(* C23: once the action of a step has returned, the entries of its `set`   *)
(* are applied in their order, each value expanded with the result of the  *)
(* action already on the step (.stdout is what the step just printed) and  *)
(* written with set_value; of two entries with the same target the later   *)
(* one decides the value.                                                  *)
(***************************************************************************)
\* The node whose var.X a key written on the first step aims at; "" for a
\* key that names no variable.
AimOf(key) ==
    CASE key \in {<<"var", "X">>, <<"", "var", "X">>} -> "step1"
      [] key = <<"job", "var", "X">> -> "job1"
      [] key = <<"workflow", "var", "X">> -> "workflow"
      [] OTHER -> ""

\* What an entry's value is once the action has printed stdout.
ExpandedWith(value, stdout) ==
    IF value = <<"str", StdoutTemplate>> THEN Stored(PyStr(Strip(stdout))) ELSE value

\* The entries among the first k that aim at node m.
AimedAt(m, k) == {a \in 1..k : AimOf(eval.arg[a][1]) = m}

\* After k entries were applied, var.X of every node is what the last entry
\* aimed at it gave, or what it was.
AppliedUpTo(k) ==
    \A m \in ScopeNodes :
        own[m]["var"]["X"] =
            IF AimedAt(m, k) = {} THEN MapsBeforeStep[m]["var"]["X"]
            ELSE LET last == CHOOSE a \in AimedAt(m, k) : \A b \in AimedAt(m, k) : b <= a
                 IN ExpandedWith(eval.arg[last][2], eval.ran.stdout)

C23_SetAppliedInOrder ==
    (eval.fn = "execute" /\ eval.pc \in {"set", "done"}) =>
        /\ eval.pc = "set" => AppliedUpTo(eval.i - 1)
        /\ (eval.pc = "done" /\ eval.result.kind = "return") => AppliedUpTo(Len(eval.arg))

\* set: {var.X: 2, .var.X: "${{ .stdout }}"} on a step that printed 42: the
\* step's var.X ends as 42.
C23_Witness ==
    /\ eval.fn = "execute"
    /\ eval.pc = "done"
    /\ eval.result.kind = "return"
    /\ eval.arg = << <<<<"var", "X">>, <<"int", 2>>>>, <<<<"", "var", "X">>, <<"str", StdoutTemplate>>>> >>
    /\ eval.ran.stdout = <<"4", "2", " ">>
    /\ own["step1"]["var"]["X"] = StrValue(<<"4", "2">>)

(***************************************************************************)
(* C24: after a command of a node has run, every line KEY=VALUE of its     *)
(* capture file is in the outputs of that node as outputs[KEY] = VALUE,    *)
(* split at the first "=", and in the outputs of no other node; the        *)
(* outputs of an earlier step are not altered by a later step.  (Of two    *)
(* lines with one KEY the later is the one that stays.)                    *)
(***************************************************************************)
\* The lines of command a that have the form KEY=VALUE and are the last of
\* their file with that KEY.
KeyValueLines(a) ==
    LET file == eval.arg[a][2]
    IN {l \in 1..Len(file) :
          /\ HasEq(file[l])
          /\ \A m \in (l + 1)..Len(file) :
               HasEq(file[m]) => SplitFirst(file[m])[1] # SplitFirst(file[l])[1]}

\* The commands that have run.
Ran == 1..eval.i

C24_OutputsCaptured ==
    (eval.fn = "exec" /\ eval.pc \in {"call", "done"}) =>
        /\ \A a \in Ran : \A l \in KeyValueLines(a) :
             LET kv == SplitFirst(eval.arg[a][2][l])
                 outputs == eval.outputs[eval.arg[a][1]]
             IN kv[1] \in DOMAIN outputs /\ outputs[kv[1]] = kv[2]
        /\ \A n \in ScopeNodes :
             (\A a \in Ran : eval.arg[a][1] # n) => eval.outputs[n] = <<>>

(***************************************************************************)
(* C25: what dispatch_job(job) returns, and what Workflow.dispatch of a    *)
(* workflow with that one job returns, when the steps of the job all       *)
(* succeed, is the job's recorded result, whose stdout is the output of    *)
(* the last step executed.                                                 *)
(***************************************************************************)
\* The top-level call has returned after running steps of job j, none of
\* which failed.
ReturnedAfterRunning(j) ==
    /\ stack = <<>>
    /\ ret.kind = "return"
    /\ \/ call.fn = "dispatch_job" /\ call.job = j
       \/ call.fn = "dispatch" /\ Len(cfg.jobs) = 1 /\ j = 1
    /\ Execs(j) # {}
    /\ \A s \in 1..Len(steps[j]) : ~failed(steps[j][s].result)

\* The last command the call ran for job j.
LastExec(j) == log[CHOOSE k \in Execs(j) : \A l \in Execs(j) : l <= k]

C25_DispatchReturnsJobResult ==
    \A j \in JobIds :
        ReturnedAfterRunning(j) =>
            /\ ret.val = jobs[j].result
            /\ ret.val.stdout = ActionResult(j, LastExec(j).step, "ok").stdout

(***************************************************************************)
(* C26: an expression that refers to a variable which resolves to nothing  *)
(* evaluates to an empty, falsy value and raises nothing, so that a node   *)
(* with `if: some.undefined.name` is skipped and the run goes on.          *)
(***************************************************************************)
\* The expression is a reference to a name that resolves to nothing.
UndefinedReference(e) ==
    /\ e[1] = "var"
    /\ e[2] \notin {<<"true">>, <<"false">>}
    /\ TryGet(Ctx, e[2], RecursionLimit) = Val(None)

C26_UndefinedIsFalsy ==
    /\ (eval.pc = "done" /\ eval.fn = "expand_expr"
        /\ Len(eval.arg[2]) = 1 /\ UndefinedReference(eval.arg[2][1][2])) =>
           eval.result.kind = "return" /\ ~Truthy(eval.result.value)
    /\ (eval.pc = "done" /\ eval.fn = "can_dispatch" /\ eval.arg[1] = "str"
        /\ UndefinedReference(eval.arg[2][1][2])) =>
           eval.result = Val(PyBool(FALSE))

(***************************************************************************)
(* C27: in an expression a + b is the arithmetic sum when both operands    *)
(* are numbers, and the concatenation of the two operands' text whenever   *)
(* at least one of them is not a number, the other being a number or not.  *)
(***************************************************************************)
\* expand_expr has returned or raised on "${{ a + b }}".
ExpandedSum ==
    /\ eval.pc = "done"
    /\ eval.fn = "expand_expr"
    /\ Len(eval.arg[2]) = 1
    /\ eval.arg[2][1][2][1] = "add"

C27_AddOrConcat ==
    ExpandedSum =>
        LET a == Eval(Ctx, eval.arg[2][1][2][2], RecursionLimit)
            b == Eval(Ctx, eval.arg[2][1][2][3], RecursionLimit)
        IN (a.kind = "return" /\ b.kind = "return") =>
              /\ eval.result.kind = "return"
              /\ IF a.value.cls = "int" /\ b.value.cls = "int"
                 THEN eval.result.value = PyInt(IntOf(a.value.value) + IntOf(b.value.value))
                 ELSE eval.result.value.value = a.value.value \o b.value.value

(***************************************************************************)
(* C28: in a string being expanded, "$${{ e }}" (a doubled $) is not       *)
(* evaluated: the text of the placeholder is emitted as it is written,     *)
(* while a "${{ e }}" that no $ precedes is replaced by the value of e.    *)
(***************************************************************************)
\* The text "${{e}}".
Literal(e) == <<"$", "{", "{">> \o SourceOf(e) \o <<"}", "}">>

\* expand_expr has returned or raised on a string of three chunks or two,
\* the first of which is the text `first`.
ExpandedAfter(first) ==
    /\ eval.pc = "done"
    /\ eval.fn = "expand_expr"
    /\ Len(eval.arg[2]) >= 2
    /\ eval.arg[2][1] = <<"text", first>>

C28_DoubledDollarIsLiteral ==
    /\ ExpandedAfter(<<"$">>) =>
          /\ eval.result.kind = "return"
          /\ eval.result.value.value \in {Literal(eval.arg[2][2][2]),
                                          <<"$">> \o Literal(eval.arg[2][2][2])}
    /\ ExpandedAfter(<<"a">>) =>
          LET v == Eval(Ctx, eval.arg[2][2][2], RecursionLimit)
          IN v.kind = "return" =>
                /\ eval.result.kind = "return"
                /\ eval.result.value.value = <<"a">> \o v.value.value \o <<"b">>

(***************************************************************************)
(* C29: a value whose expansion again contains ${{ }} is expanded again,   *)
(* and expansion always ends: a chain of more than 5 nested expansions,    *)
(* such as a variable whose value refers to itself, ends with an expansion *)
(* error, neither looping nor returning a value.                           *)
(***************************************************************************)
\* How many variables are expanded one inside the other from x on, or -1
\* when the references come back to a variable already expanded.
RECURSIVE NestedFrom(_, _)
NestedFrom(x, left) ==
    LET value == own["workflow"]["var"][x]
    IN IF left = 0 THEN -1
       ELSE IF value[1] = "str" /\ HasPlaceholder(value[2])
       THEN LET d == NestedFrom(value[2][1][2][2][2], left - 1)
            IN IF d = -1 THEN -1 ELSE d + 1
       ELSE 0

\* expand_expr has returned or raised on a reference to the chain from V1.
ChainExpanded ==
    /\ eval.pc = "done"
    /\ eval.fn = "expand_expr"
    /\ own["workflow"]["var"]["V1"] # Unset

C29_ExpansionBounded ==
    ChainExpanded =>
        LET d == NestedFrom("V1", Len(ChainNames) + 1)
        IN /\ d \in 0..3 => eval.result = Val(PyStr(<<"e">>))
           /\ (d = -1 \/ d > 5) => eval.result.kind = "raise"

(***************************************************************************)
(* C30: can_dispatch returns True for a node without `if`, the literal for *)
(* a boolean `if`, and for a string the boolean coercion of the string     *)
(* evaluated as an expression; a bare condition c and "${{ c }}" give the  *)
(* same decision.                                                          *)
(***************************************************************************)
\* can_dispatch has returned or raised.
Decided == eval.pc = "done" /\ eval.fn = "can_dispatch"

\* The same condition written the other way: c for "${{ c }}" and back.
OtherWay(if) ==
    <<"str", << <<IF if[2][1][1] = "bare" THEN "expr" ELSE "bare", if[2][1][2]>> >> >>

C30_CanDispatch ==
    Decided =>
        /\ eval.arg[1] = "null" => eval.result = Val(PyBool(TRUE))
        /\ eval.arg[1] = "bool" => eval.result = Val(PyBool(eval.arg[2]))
        /\ eval.arg[1] = "str" =>
              LET v == Eval(Ctx, eval.arg[2][1][2], RecursionLimit)
              IN /\ v.kind = "return" => eval.result = Val(PyBool(Truthy(v.value)))
                 /\ eval.result = CanDispatch(Ctx, OtherWay(eval.arg), RecursionLimit)

\* The bare condition `false` has been decided: the node is not dispatched.
C30_Witness ==
    /\ Decided
    /\ eval.arg = <<"str", << <<"bare", <<"var", <<"false">>>>>> >> >>
    /\ eval.result = Val(PyBool(FALSE))

(***************************************************************************)
(* C31: when the container of a docker:// host cannot be started, host     *)
(* preparation yields a failed ProcessResult, which the dispatcher hands   *)
(* on like the failure of a command; no exception is raised for it.        *)
(***************************************************************************)
\* The exception of bluish.process.prepare_host is on its way up.
HostPreparationRaised == ret.kind = "raise" /\ ret.exc = "ValueError"

C31_UnstartableHostIsAFailedResult == ~HostPreparationRaised

(***************************************************************************)
(* C33: a write of an env or var key X issued on a node.                   *)
(***************************************************************************)
\* The node whose own map the write is said to reach: the nearest node of
\* the chain that declares X, the node itself when none does.
NearestDeclaring(maps, n, root, name) ==
    IF Nearest(maps, n, root, name) = "" THEN n ELSE Nearest(maps, n, root, name)

\* C33 as stated: the write targets the nearest map on the node's parent
\* chain that already declares X, and goes to the node's own map only when
\* no map on the chain declares X.
C33_WriteTargetsNearestDeclaration ==
    [][IsSet =>
         own' = [own EXCEPT ![NearestDeclaring(own, got'.node, got'.root, got'.name)]
                                [got'.root][got'.name] = got'.value]]_vars

\* C33, amended: the write goes to the node's own map, also when a map
\* further up the node's parent chain already declares X; the map of the
\* nearest declaring node keeps the value it declared.
C33_WriteTargetsOwnMap ==
    [][IsSet =>
         LET n == got'.node
             d == NearestDeclaring(own, n, got'.root, got'.name)
         IN /\ own'[n][got'.root][got'.name] = got'.value
            /\ d # n => own'[d][got'.root][got'.name] = own[d][got'.root][got'.name]
            /\ \A m \in ScopeNodes \ {n} : own'[m] = own[m]]_vars

\* X was declared by the workflow and by job1 but not by step1; it has been
\* set on step1, and job1 and the workflow keep what they declared.
C33_Witness ==
    /\ got.op = "set" /\ got.node = "step1" /\ got.root = "env"
    /\ got.result.kind = "return"
    /\ own["step1"]["env"][got.name] = got.value
    /\ own["job1"]["env"][got.name] = <<"2">>
    /\ own["workflow"]["env"][got.name] = <<"1">>

(***************************************************************************)
(* C32: get_value and set_value raise when a jobs.<id> or steps.<id> name  *)
(* gives an id that does not exist, and set_value raises for every name    *)
(* outside the writable namespaces (env, var, inputs and outputs, reached  *)
(* directly or through workflow, job, step, jobs or steps); no map of any  *)
(* node is changed then.                                                   *)
(***************************************************************************)
\* The name has a jobs.<id> or steps.<id> whose id is the id of no node.
NamesUnknownId(name) ==
    \E i \in 1..(Len(name) - 1) :
        /\ name[i] \in {"jobs", "steps"}
        /\ name[i + 1] \notin ScopeNodes

\* The name ends in X of a writable namespace.
NamesWritable(name) ==
    /\ Len(name) >= 2
    /\ name[Len(name) - 1] \in WritableRoots

\* A call with a name from PathNames has returned or raised.
PathCalled(fn) ==
    /\ eval.pc = "done"
    /\ eval.fn = fn
    /\ (IF fn = "set_value" THEN eval.arg[1] ELSE eval.arg) \in PathNames

C32_BadPathsRaise ==
    /\ (PathCalled("get_value") /\ NamesUnknownId(eval.arg)) =>
          eval.result.kind = "raise"
    /\ (PathCalled("set_value")
        /\ (NamesUnknownId(eval.arg[1]) \/ ~NamesWritable(eval.arg[1]))) =>
          /\ eval.result.kind = "raise"
          /\ own \in PathMaps

\* set_value('jobs.job3.var.X', ...) has raised on a step of a tree where
\* job1 defines X, and the maps are what they were.
C32_Witness ==
    /\ PathCalled("set_value")
    /\ eval.node = "step1"
    /\ eval.arg[1] = <<"jobs", "job3", "var", "X">>
    /\ eval.result = Err("ValueError: Job not found")
    /\ own["job1"]["var"]["X"] = <<"int", 1>>

(***************************************************************************)
(* C34: when a dispatch call (Workflow.dispatch, dispatch_job,             *)
(* Job.dispatch, Step.dispatch) returns or raises, no node it dispatched   *)
(* is left RUNNING, also when host preparation, the evaluation of a        *)
(* condition or an action raises.                                          *)
(***************************************************************************)
\* The nodes that are RUNNING: <<>> is the workflow, <<j>> a job, <<j, s>> a step.
RunningNodes ==
    (IF wf.status = RUNNING THEN {<<>>} ELSE {})
    \cup {<<j>> : j \in {k \in DOMAIN jobs : jobs[k].status = RUNNING}}
    \cup UNION {{<<j, s>> : s \in {t \in DOMAIN steps[j] : steps[j][t].status = RUNNING}}
                : j \in DOMAIN steps}

\* Every call has returned or raised: nothing is on the stack.
NothingDispatching == stack = <<>>

C34_NothingLeftRunning == NothingDispatching => RunningNodes = {}

(***************************************************************************)
(* C35: at every point of a workflow dispatch at most one job of the       *)
(* workflow is RUNNING and at most one step is RUNNING, and a step is      *)
(* RUNNING only while the job that owns it is RUNNING.                     *)
(***************************************************************************)
\* Workflow.dispatch is under way.
WorkflowDispatching == stack # <<>> /\ call.fn = "dispatch"

RunningJobs == {n \in RunningNodes : Len(n) = 1}

RunningSteps == {n \in RunningNodes : Len(n) = 2}

C35_OneThreadOfControl ==
    WorkflowDispatching =>
        /\ Cardinality(RunningJobs) <= 1
        /\ Cardinality(RunningSteps) <= 1
        /\ \A n \in RunningSteps : <<n[1]>> \in RunningJobs

\* The second job of the workflow is RUNNING with its step, after the
\* first job has finished.
C35_Witness ==
    /\ WorkflowDispatching
    /\ RunningJobs = {<<2>>}
    /\ RunningSteps = {<<2, 1>>}
    /\ jobs[1].status = FINISHED

(***************************************************************************)
(* C36: the result of a job's dispatch is failed only if some step without *)
(* continue_on_error failed; when every failing step of the job sets       *)
(* continue_on_error the job's result is not failed and the workflow goes  *)
(* on to the following jobs.                                               *)
(***************************************************************************)
\* The steps of job j that failed and do not set continue_on_error.
FatalSteps(j) ==
    {s \in DOMAIN steps[j] : failed(steps[j][s].result)
                              /\ ~cfg.jobs[j].steps[s].continue_on_error}

\* Job.dispatch has just returned a result to __dispatch_job.
JobDispatchReturned == Returned("dispatch_job", "job_ret") /\ ~ret.none

C36_JobFailsOnlyOnFatalStep ==
    (JobDispatchReturned /\ failed(ret.val)) => FatalSteps(Top.job) # {}

(***************************************************************************)
(* C37: under a matrix each combination starts from fresh Step children:   *)
(* when Job.dispatch is entered for a combination, every step of the job   *)
(* is PENDING with an empty result and empty outputs, and job.matrix is    *)
(* exactly that combination.                                               *)
(***************************************************************************)
\* Job.dispatch has just been called by the matrix loop of __dispatch_job.
CombinationBegins ==
    /\ Running("job", "begin")
    /\ Len(stack) > 1
    /\ stack[Len(stack) - 1].fn = "dispatch_job"

\* The combination the calling loop is at: {**wf_matrix, **job_matrix}.
Combination ==
    LET loop == stack[Len(stack) - 1] IN
    MergeMatrix(_generate_matrices(cfg.matrix)[loop.wi],
                _generate_matrices(cfg.jobs[loop.job].matrix)[loop.ji])

\* Some step of job j ran its action under a combination other than m.
RanUnderAnother(j, m) ==
    \E k \in 1..Len(log) :
        /\ log[k].ev = "exec"
        /\ log[k].job = j
        /\ log[k].matrix # m

C37_CombinationStartsFresh ==
    CombinationBegins =>
        /\ \A s \in 1..Len(steps[Top.job]) :
              /\ steps[Top.job][s].status = PENDING
              /\ steps[Top.job][s].result = ProcessResult
              /\ steps[Top.job][s].outputs = <<>>
        /\ Len(steps[Top.job]) = Len(cfg.jobs[Top.job].steps)
        /\ jobs[Top.job].matrix = Combination

\* A later combination begins after the steps of the job ran under an
\* earlier one.
C37_Witness ==
    /\ CombinationBegins
    /\ Combination # <<>>
    /\ RanUnderAnother(Top.job, Combination)

(***************************************************************************)
(* C38: under a matrix the first combination whose Job.dispatch returns a  *)
(* failed result ends __dispatch_job: that result is returned at once,     *)
(* whatever continue_on_error says on the job, and Job.dispatch is not     *)
(* called for the combinations that remain.                                *)
(***************************************************************************)
\* How many times the history has Job.dispatch called for job j.
JobEvents(history, j) ==
    Cardinality({k \in 1..Len(history) : history[k].ev = "job" /\ history[k].job = j})

\* The combinations the loops of the top frame have not reached yet.
CombinationsLeft ==
    LET wms == _generate_matrices(cfg.matrix)
        jms == _generate_matrices(cfg.jobs[Top.job].matrix)
    IN {<<w, k>> \in (1..Len(wms)) \X (1..Len(jms)) :
           /\ w > Top.wi \/ (w = Top.wi /\ k > Top.ji)
           /\ ~AlreadyExecuted(MergeMatrix(wms[w], jms[k]), Top.executed_matrices)}

C38_FailedCombinationEndsDispatch ==
    [][/\ (JobDispatchReturned /\ failed(ret.val)) =>
              (stack' = Pop /\ ret' = Return(ret.val))
       /\ \A j \in JobIds :
              (jobs[j].status = FINISHED /\ failed(jobs[j].result)) =>
                  JobEvents(log', j) <= JobEvents(log, j)]_vars

\* Job.dispatch returned a failed result for a job with continue_on_error
\* while a combination is left.
C38_Witness ==
    /\ JobDispatchReturned
    /\ failed(ret.val)
    /\ cfg.jobs[Top.job].continue_on_error
    /\ CombinationsLeft # {}

(***************************************************************************)
(* C39: in every job each step has an id, step_{i+1} for the step at       *)
(* 0-based position i when none is given, and no two steps of a job share  *)
(* an id, so that a steps.<id> path denotes exactly one step.              *)
(***************************************************************************)
\* The positions of the steps of the job that carry the id.
StepsWithId(ids, step_id) == {k \in 1..Len(ids) : ids[k] = step_id}

C39_StepIdsAreUnique ==
    (eval.pc = "done" /\ eval.fn = "find_step") =>
        LET ids == StepIds(eval.arg[1]) IN
        /\ \A k \in 1..Len(ids) :
              /\ ids[k] # NoId
              /\ eval.arg[1][k] = NoId => ids[k] = <<"step_", (k - 1) + 1>>
        /\ \A k, m \in 1..Len(ids) : ids[k] = ids[m] => k = m
        /\ eval.result.kind = "return" =>
              StepsWithId(ids, eval.arg[2]) = {eval.result.value.step}

(***************************************************************************)
(* C40: a depends_on entry that names a job id absent from the workflow    *)
(* makes dispatch_job raise a configuration error, and the job declaring   *)
(* the entry never executes a step.                                        *)
(***************************************************************************)
\* Job j lists a dependency that is no job of the workflow.
AbsentDependency(j) ==
    \E k \in 1..Len(cfg.jobs[j].depends_on) : cfg.jobs[j].depends_on[k] \notin JobIds

\* The history has a step of job j executing its action.
Executed(history, j) ==
    \E k \in 1..Len(history) : history[k].ev = "exec" /\ history[k].job = j

\* This step ends the dispatch_job call for job j.
DispatchJobEnds(j) ==
    /\ stack # <<>>
    /\ Top.fn = "dispatch_job"
    /\ Top.job = j
    /\ stack' = Pop

C40_AbsentDependencyRaises ==
    [][\A j \in JobIds :
          AbsentDependency(j) =>
              /\ ~Executed(log', j)
              /\ DispatchJobEnds(j) => ret'.kind = "raise"]_vars

====
